---- MODULE Spec2Model ----
(***************************************************************************)
(* Embodied-carbon-aware scheduler (scheduler_embodied_aware.py) and the   *)
(* carbon-intensity estimator it reads (estimator.py).                     *)
(*                                                                         *)
(* Numbers.  The Python code computes with floats.  The model computes     *)
(* with exact rationals: a natural number is a little-endian sequence of   *)
(* base-10000 limbs without leading zero limbs (<<>> is 0), and a rational *)
(* is a record [neg, n, d] of a sign and two naturals, d > 0.  round(x, k) *)
(* is modelled by what it does: it yields the nearest multiple of 10^-k,   *)
(* ties to even, and the model keeps that multiple as a signed count of    *)
(* units of 10^-k, a record [neg, n].                                      *)
(***************************************************************************)
EXTENDS Integers, Sequences, FiniteSets, TLC

(* ------------------------- natural numbers ----------------------------- *)

RECURSIVE NTrim(_)
NTrim(a) ==
    IF a = <<>> THEN a
    ELSE IF a[Len(a)] = 0 THEN NTrim(SubSeq(a, 1, Len(a) - 1)) ELSE a

RECURSIVE NOfInt(_)
NOfInt(k) ==
    IF k = 0 THEN <<>> ELSE <<k % 10000>> \o NOfInt(k \div 10000)

RECURSIVE NAddC(_, _, _)
NAddC(a, b, c) ==
    IF a = <<>> /\ b = <<>> THEN (IF c = 0 THEN <<>> ELSE <<c>>)
    ELSE LET x == (IF a = <<>> THEN 0 ELSE Head(a))
                  + (IF b = <<>> THEN 0 ELSE Head(b)) + c
             ta == IF a = <<>> THEN a ELSE Tail(a)
             tb == IF b = <<>> THEN b ELSE Tail(b)
         IN  <<x % 10000>> \o NAddC(ta, tb, x \div 10000)

NAdd(a, b) == NAddC(a, b, 0)

RECURSIVE NCmpAt(_, _, _)
NCmpAt(a, b, i) ==
    IF i = 0 THEN 0
    ELSE IF a[i] < b[i] THEN -1
    ELSE IF a[i] > b[i] THEN 1
    ELSE NCmpAt(a, b, i - 1)

NCmp(a, b) ==
    IF Len(a) < Len(b) THEN -1
    ELSE IF Len(a) > Len(b) THEN 1
    ELSE NCmpAt(a, b, Len(a))

\* a - b for a >= b
RECURSIVE NSubB(_, _, _)
NSubB(a, b, br) ==
    IF a = <<>> THEN <<>>
    ELSE LET x == Head(a) - (IF b = <<>> THEN 0 ELSE Head(b)) - br
             tb == IF b = <<>> THEN b ELSE Tail(b)
         IN  IF x < 0 THEN <<x + 10000>> \o NSubB(Tail(a), tb, 1)
             ELSE <<x>> \o NSubB(Tail(a), tb, 0)

NSub(a, b) == NTrim(NSubB(a, b, 0))

\* a * k for a limb k in 0..9999
RECURSIVE NMulC(_, _, _)
NMulC(a, k, c) ==
    IF a = <<>> THEN (IF c = 0 THEN <<>> ELSE <<c>>)
    ELSE LET x == Head(a) * k + c
         IN  <<x % 10000>> \o NMulC(Tail(a), k, x \div 10000)

NMulS(a, k) == IF k = 0 THEN <<>> ELSE NMulC(a, k, 0)

NShift(a) == IF a = <<>> THEN a ELSE <<0>> \o a

RECURSIVE NMul(_, _)
NMul(a, b) ==
    IF a = <<>> \/ b = <<>> THEN <<>>
    ELSE NAdd(NMulS(a, Head(b)), NShift(NMul(a, Tail(b))))

\* the value of a natural of at most two limbs
NToInt(a) == IF a = <<>> THEN 0
             ELSE IF Len(a) = 1 THEN a[1] ELSE a[2] * 10000 + a[1]

NLimb(a, i) == IF i >= 1 /\ i <= Len(a) THEN a[i] ELSE 0

\* the largest q in lo..hi with q * b <= r
RECURSIVE NDigit(_, _, _, _)
NDigit(r, b, lo, hi) ==
    IF lo >= hi THEN lo
    ELSE LET mid == (lo + hi + 1) \div 2
         IN  IF NCmp(NMulS(b, mid), r) <= 0 THEN NDigit(r, b, mid, hi)
             ELSE NDigit(r, b, lo, mid - 1)

\* the factor that brings a leading limb to four digits
NScale(top) ==
    IF top < 10 THEN 1000 ELSE IF top < 100 THEN 100 ELSE IF top < 1000 THEN 10 ELSE 1

\* the limbs i + 1, i and i - 1 of a, scaled by s and cut to the leading two
NLead(a, i, s) ==
    NLimb(a, i + 1) * 10000 * s + NLimb(a, i) * s + (NLimb(a, i - 1) * s) \div 10000

\* r \div b for r < 10000 * b: the leading digits rt of r and bt of b bound
\* the quotient, and the search runs between the bounds
NQuotIn(r, b, rt, bt) ==
    NDigit(r, b, rt \div (bt + 1), IF rt \div bt > 9999 THEN 9999 ELSE rt \div bt)

NQuotBy(r, b, m, s) == NQuotIn(r, b, NLead(r, m, s), NLead(b, m, s))

NQuot(r, b) ==
    IF NCmp(r, b) < 0 THEN 0
    ELSE IF Len(b) = 1 THEN NToInt(r) \div b[1]
    ELSE NQuotBy(r, b, Len(b), NScale(b[Len(b)]))

\* one step of the long division: the digit q of the running remainder r0
\* goes before the digits qs found so far
NDivPut(r0, qs, b, q) == <<NTrim(<<q>> \o qs), NSub(r0, NMulS(b, q))>>

NDivLimb(r0, qs, b) == NDivPut(r0, qs, b, NQuot(r0, b))

NDivStep(h, hi, b) == NDivLimb(NTrim(<<h>> \o hi[2]), hi[1], b)

\* <<a \div b, a % b>> for b > 0
RECURSIVE NDivMod(_, _)
NDivMod(a, b) ==
    IF a = <<>> THEN <<<<>>, <<>>>>
    ELSE NDivStep(Head(a), NDivMod(Tail(a), b), b)

RECURSIVE GcdInt(_, _)
GcdInt(a, b) == IF b = 0 THEN a ELSE GcdInt(b, a % b)

RECURSIVE NGcd(_, _)
NGcd(a, b) ==
    IF b = <<>> THEN a
    ELSE IF Len(a) <= 2 /\ Len(b) <= 2 THEN NOfInt(GcdInt(NToInt(a), NToInt(b)))
    ELSE NGcd(b, NDivMod(a, b)[2])

RECURSIVE NPow10(_)
NPow10(k) == IF k = 0 THEN <<1>> ELSE NMul(NPow10(k - 1), <<10>>)

(* ----------------------------- rationals ------------------------------- *)

\* the integers n / d, n > 0, in lowest terms, g being their gcd
QReduced(neg, n, d, g) == [neg |-> neg, n |-> NOfInt(n \div g), d |-> NOfInt(d \div g)]

QSmall(neg, n, d) == QReduced(neg, n, d, GcdInt(n, d))

\* n / d with the sign, reduced to lowest terms while both are small
QMake(neg, n, d) ==
    IF n = <<>> THEN [neg |-> FALSE, n |-> n, d |-> <<1>>]
    ELSE IF Len(n) <= 2 /\ Len(d) <= 2 THEN QSmall(neg, NToInt(n), NToInt(d))
    ELSE [neg |-> neg, n |-> n, d |-> d]

\* the integer k
QInt(k) == [neg |-> k < 0, n |-> NOfInt(IF k < 0 THEN -k ELSE k), d |-> <<1>>]

\* the decimal literal  k / 10^e   (0.12 is QDec(12, 2))
QDec(k, e) ==
    IF k = 0 THEN QInt(0) ELSE QSmall(k < 0, IF k < 0 THEN -k ELSE k, 10 ^ e)

QNeg(x) == QMake(~x.neg, x.n, x.d)

\* a / d with the sign xneg plus b / d with the sign yneg
QSum(xneg, yneg, a, b, d) ==
    IF xneg = yneg THEN QMake(xneg, NAdd(a, b), d)
    ELSE IF NCmp(a, b) >= 0 THEN QMake(xneg, NSub(a, b), d)
    ELSE QMake(yneg, NSub(b, a), d)

QAdd(x, y) ==
    QSum(x.neg, y.neg, NMul(x.n, y.d), NMul(y.n, x.d), NMul(x.d, y.d))

QSub(x, y) == QAdd(x, QNeg(y))

QMul(x, y) == QMake(x.neg # y.neg, NMul(x.n, y.n), NMul(x.d, y.d))

\* x / y for y # 0
QDiv(x, y) == QMake(x.neg # y.neg, NMul(x.n, y.d), NMul(x.d, y.n))

QIsZero(x) == x.n = <<>>

\* -1, 0 or 1 as x < y, x = y, x > y
QCmpSigned(xneg, yneg, a, b) ==
    IF xneg /\ ~yneg THEN -1
    ELSE IF ~xneg /\ yneg THEN 1
    ELSE IF xneg THEN NCmp(b, a) ELSE NCmp(a, b)

QCmp(x, y) == QCmpSigned(x.neg, y.neg, NMul(x.n, y.d), NMul(y.n, x.d))

QLt(x, y) == QCmp(x, y) < 0
QLe(x, y) == QCmp(x, y) <= 0
QEq(x, y) == QCmp(x, y) = 0
QMin(x, y) == IF QLe(x, y) THEN x ELSE y
QMax(x, y) == IF QLe(y, x) THEN x ELSE y

\* x in lowest terms: the one representation of its value
QNormBy(x, g) == QMake(x.neg, NDivMod(x.n, g)[1], NDivMod(x.d, g)[1])

QNorm(x) ==
    IF x.n = <<>> \/ (Len(x.n) <= 2 /\ Len(x.d) <= 2) THEN QMake(x.neg, x.n, x.d)
    ELSE QNormBy(x, NGcd(x.n, x.d))

\* a count n of units with its sign; the count 0 has none
RoundSigned(neg, n) == [neg |-> neg /\ n # <<>>, n |-> n]

\* q units and a remainder: twice compares twice the remainder with the
\* divisor, and a tie goes to the even count
RoundTie(neg, q, twice) ==
    RoundSigned(neg, IF twice > 0 \/ (twice = 0 /\ q # <<>> /\ q[1] % 2 = 1)
                     THEN NAdd(q, <<1>>) ELSE q)

RoundDivided(neg, qr, d) == RoundTie(neg, qr[1], NCmp(NAdd(qr[2], qr[2]), d))

\* round(x, k): the nearest multiple of 10^-k, ties to even, as a signed
\* count [neg, n] of units of 10^-k
Round(x, k) == RoundDivided(x.neg, NDivMod(NMul(x.n, NPow10(k)), x.d), x.d)

\* the rational a rounded count stands for
Unround(r, k) == QMake(r.neg, r.n, NPow10(k))

\* sum of two rounded counts of the same unit
RAdd(r, s) ==
    IF r.neg = s.neg THEN [neg |-> r.neg, n |-> NAdd(r.n, s.n)]
    ELSE IF NCmp(r.n, s.n) >= 0
         THEN [neg |-> r.neg /\ r.n # s.n, n |-> NSub(r.n, s.n)]
         ELSE [neg |-> s.neg, n |-> NSub(s.n, r.n)]

RCmp(r, s) ==
    IF r.neg /\ ~s.neg THEN -1
    ELSE IF ~r.neg /\ s.neg THEN 1
    ELSE IF r.neg THEN NCmp(s.n, r.n) ELSE NCmp(r.n, s.n)

(* ------------------ scheduler_embodied_aware.py: tables ---------------- *)

\* an optional reading: None is <<>>, the number v is <<v>>
None == <<>>
Some(v) == <<v>>

ServerAges == <<"new", "medium", "old">>

\* SERVER_SPECS: age_years, total_embodied_kg, expected_lifetime_years
SERVER_SPECS ==
    [new    |-> [age_years |-> (QDec(5, 1)),  total_embodied_kg |-> QInt(660),
                 expected_lifetime_years |-> QInt(5)],
     medium |-> [age_years |-> (QDec(25, 1)), total_embodied_kg |-> QInt(660),
                 expected_lifetime_years |-> QInt(5)],
     old    |-> [age_years |-> (QDec(40, 1)), total_embodied_kg |-> QInt(660),
                 expected_lifetime_years |-> QInt(5)]]

BASE_POWER_W == 65

\* the regions in the insertion order of the REGION_DATACENTERS dict
RegionOrder == <<"Northern", "Western", "Southern", "Eastern">>
Regions == {RegionOrder[i] : i \in 1..Len(RegionOrder)}

\* REGION_DATACENTERS: latency_ms, cost_factor, servers[age].available
REGION_DATACENTERS ==
    [Northern |-> [latency_ms |-> 70,  cost_factor |-> (QDec(30, 1)),
                   servers |-> [new |-> 10, medium |-> 20, old |-> 30]],
     Western  |-> [latency_ms |-> 90,  cost_factor |-> (QDec(28, 1)),
                   servers |-> [new |-> 15, medium |-> 15, old |-> 20]],
     Southern |-> [latency_ms |-> 80,  cost_factor |-> (QDec(32, 1)),
                   servers |-> [new |-> 20, medium |-> 25, old |-> 15]],
     Eastern  |-> [latency_ms |-> 120, cost_factor |-> (QDec(25, 1)),
                   servers |-> [new |-> 8,  medium |-> 12, old |-> 40]]]

EFFICIENCY_DEGRADATION_RATE == QDec(12, 2)
PUE_DEFAULT == QDec(12, 1)
NEW_HARDWARE_CARBON_MULTIPLIER == QInt(2)
MAX_DEGRADATION == QDec(60, 2)
HOURS_PER_YEAR == QMul(QDec(36525, 2), QInt(24))

(* ------------- scheduler_embodied_aware.py: core calculations ---------- *)

\* Each calculation is a pair: the exception it raises ("none" when it
\* returns) and the value it returns.

calculate_carbon_debt_ratio_exc(age_years, expected_lifetime_years) ==
    IF QLe(expected_lifetime_years, age_years) THEN "none"
    ELSE IF QIsZero(expected_lifetime_years) THEN "ZeroDivisionError"
    ELSE "none"

\* the ratio without the test of line 122
calculate_carbon_debt_ratio_unclamped(age_years, expected_lifetime_years) ==
    QDiv(QSub(expected_lifetime_years, age_years), expected_lifetime_years)

calculate_carbon_debt_ratio(age_years, expected_lifetime_years) ==
    IF QLe(expected_lifetime_years, age_years) THEN QInt(0)
    ELSE QDiv(QSub(expected_lifetime_years, age_years), expected_lifetime_years)

\* the power without the cap of line 144
calculate_power_consumption_uncapped(base_power_w, age_years, alpha) ==
    QMul(base_power_w, QAdd(QInt(1), QMul(alpha, age_years)))

calculate_power_consumption(base_power_w, age_years, alpha) ==
    LET degradation_factor == QMin(QMul(alpha, age_years), MAX_DEGRADATION)
    IN  QMul(base_power_w, QAdd(QInt(1), degradation_factor))

calculate_power_consumption_exc(base_power_w, age_years, alpha) ==
    IF QLe(calculate_power_consumption(base_power_w, age_years, alpha),
           QMul(base_power_w, QDec(160, 2)))
    THEN "none" ELSE "AssertionError"

\* the amortised share without the debt ratio (line 192 left out)
calculate_amortized_embodied_carbon_no_debt(total_embodied_kg, age_years, expected_lifetime_years, duration_hours) ==
    LET total_lifetime_hours == QMul(expected_lifetime_years, HOURS_PER_YEAR)
        carbon_per_hour_g == QDiv(QMul(total_embodied_kg, QInt(1000)),
                                  total_lifetime_hours)
    IN  QMul(carbon_per_hour_g, duration_hours)

calculate_amortized_embodied_carbon(total_embodied_kg, age_years, expected_lifetime_years, duration_hours) ==
    LET debt_ratio == calculate_carbon_debt_ratio(age_years, expected_lifetime_years)
        total_lifetime_hours == QMul(expected_lifetime_years, HOURS_PER_YEAR)
        carbon_per_hour_g == QDiv(QMul(total_embodied_kg, QInt(1000)),
                                  total_lifetime_hours)
        task_carbon_g == QMul(carbon_per_hour_g, duration_hours)
    IN  QMul(task_carbon_g, debt_ratio)

\* lines 196-198: the assertion on the result
EmbodiedAssertion(carbon_g, duration_hours) ==
    IF /\ QLe(QInt(0), carbon_g)
       /\ QLe(carbon_g, QMax(QInt(1), QMul(duration_hours, QInt(100))))
    THEN "none" ELSE "AssertionError"

calculate_amortized_embodied_carbon_exc(total_embodied_kg, age_years, expected_lifetime_years, duration_hours) ==
    IF calculate_carbon_debt_ratio_exc(age_years, expected_lifetime_years) # "none"
    THEN calculate_carbon_debt_ratio_exc(age_years, expected_lifetime_years)
    ELSE IF QIsZero(expected_lifetime_years) THEN "ZeroDivisionError"
    ELSE EmbodiedAssertion(
             calculate_amortized_embodied_carbon(
                 total_embodied_kg, age_years, expected_lifetime_years, duration_hours),
             duration_hours)

calculate_operational_carbon(power_w, duration_hours, carbon_intensity, pue) ==
    QMul(QMul(QDiv(QMul(power_w, duration_hours), QInt(1000)), carbon_intensity), pue)

\* lines 265-267: the tuple returned, as a record
CarbonTuple(operational_co2_g, embodied_co2_g) ==
    [operational_co2_g |-> operational_co2_g,
     embodied_co2_g |-> embodied_co2_g,
     total_co2_g |-> QAdd(operational_co2_g, embodied_co2_g)]

\* lines 250-267: the emissions on a server with the specs record specs
TotalCarbonOf(specs, duration_seconds, carbon_intensity) ==
    CarbonTuple(
        calculate_operational_carbon(
            calculate_power_consumption(
                QInt(BASE_POWER_W), specs.age_years, EFFICIENCY_DEGRADATION_RATE),
            QDiv(duration_seconds, QInt(3600)), carbon_intensity, PUE_DEFAULT),
        calculate_amortized_embodied_carbon(
            specs.total_embodied_kg, specs.age_years, specs.expected_lifetime_years,
            QDiv(duration_seconds, QInt(3600))))

\* line 248: specs = SERVER_SPECS[server_age]
calculate_total_carbon(server_age, duration_seconds, carbon_intensity) ==
    TotalCarbonOf(SERVER_SPECS[server_age], duration_seconds, carbon_intensity)

TotalCarbonExcOf(specs, duration_seconds) ==
    IF calculate_power_consumption_exc(
           QInt(BASE_POWER_W), specs.age_years, EFFICIENCY_DEGRADATION_RATE) # "none"
    THEN "AssertionError"
    ELSE calculate_amortized_embodied_carbon_exc(
             specs.total_embodied_kg, specs.age_years, specs.expected_lifetime_years,
             QDiv(duration_seconds, QInt(3600)))

calculate_total_carbon_exc(server_age, duration_seconds) ==
    TotalCarbonExcOf(SERVER_SPECS[server_age], duration_seconds)

(* ------------------------------ estimator.py --------------------------- *)

ZONE_MAP == [Northern |-> "IN-NO", Western |-> "IN-WE", Southern |-> "IN-SO",
             Eastern |-> "IN-EA"]
CACHE_TTL == 300
DEFAULT_CI == 700

\* What the remote answers to one request: RequestError is a raised
\* exception, a timeout or a status other than 200; Response(v) is status 200
\* with the JSON field carbonIntensity (None when the field is missing).
RequestError == [status |-> "error", carbonIntensity |-> None]
Response(v) == [status |-> "200", carbonIntensity |-> v]

\* get_live_ci with the age of the entry not looked at (line 16 without
\* its second condition)
get_live_ci_any_age(region, cache, t, resp) ==
    IF region \notin DOMAIN ZONE_MAP THEN [ret |-> Some(DEFAULT_CI), cache |-> cache]
    ELSE IF cache[region] # None
    THEN [ret |-> cache[region][1].ci, cache |-> cache]
    ELSE IF resp.status # "200" THEN [ret |-> Some(DEFAULT_CI), cache |-> cache]
    ELSE [ret |-> resp.carbonIntensity,
          cache |-> [cache EXCEPT
                        ![region] = Some([ci |-> resp.carbonIntensity, ts |-> t])]]

\* get_live_ci: [ret, cache].  A truthy cache entry younger than CACHE_TTL is
\* served; a 200 answer is stored and returned as read; anything else is 700.
get_live_ci(region, cache, t, resp) ==
    IF region \notin DOMAIN ZONE_MAP THEN [ret |-> Some(DEFAULT_CI), cache |-> cache]
    ELSE IF cache[region] # None /\ t - cache[region][1].ts < CACHE_TTL
    THEN [ret |-> cache[region][1].ci, cache |-> cache]
    ELSE IF resp.status # "200" THEN [ret |-> Some(DEFAULT_CI), cache |-> cache]
    ELSE [ret |-> resp.carbonIntensity,
          cache |-> [cache EXCEPT
                        ![region] = Some([ci |-> resp.carbonIntensity, ts |-> t])]]

\* The historical CSV of a region: missing (NoFile), present but not
\* readable as a CSV with a carbon_intensity column and a last row
\* (Unreadable: pandas raises), or present with a last value (File(v)).
NoFile == [state |-> "nofile", last |-> None]
Unreadable == [state |-> "unreadable", last |-> None]
File(v) == [state |-> "ok", last |-> Some(v)]

get_recent_historical_ci_exc(file) ==
    IF file.state = "unreadable" THEN "PandasError" ELSE "none"

get_recent_historical_ci(file) == IF file.state = "nofile" THEN None ELSE file.last

\* Python's  x or y  on optional readings: None and 0 are falsy
Or(x, y) == IF x = None \/ x = Some(0) THEN y ELSE x

(* ------------- scheduler_embodied_aware.py: the scheduler -------------- *)

Strategies == {"embodied_prioritized", "balanced", "operational_only"}

\* the scores with the debt term of embodied_prioritized left out
Score_no_debt_term(strategy, operational_co2, embodied_co2, total_co2, debt_ratio, latency, cost) ==
    IF strategy = "embodied_prioritized"
    THEN QAdd(QAdd(QMul(QDec(4, 1), total_co2),
                   QMul(QDec(2, 1), QDiv(QInt(latency), QInt(1000)))),
              QMul(QDec(1, 1), cost))
    ELSE IF strategy = "balanced"
    THEN QAdd(QAdd(QAdd(QMul(QDec(35, 2), operational_co2),
                        QMul(QDec(35, 2), embodied_co2)),
                   QMul(QDec(2, 1), QDiv(QInt(latency), QInt(1000)))),
              QMul(QDec(1, 1), cost))
    ELSE QAdd(QAdd(QMul(QDec(7, 1), operational_co2),
                   QMul(QDec(2, 1), QDiv(QInt(latency), QInt(1000)))),
              QMul(QDec(1, 1), cost))

\* lines 383-405: the score of one candidate under a strategy
Score(strategy, operational_co2, embodied_co2, total_co2, debt_ratio, latency, cost) ==
    IF strategy = "embodied_prioritized"
    THEN QAdd(QAdd(QAdd(QMul(QDec(4, 1), total_co2),
                        QMul(QDec(3, 1), QMul(debt_ratio, QInt(1000)))),
                   QMul(QDec(2, 1), QDiv(QInt(latency), QInt(1000)))),
              QMul(QDec(1, 1), cost))
    ELSE IF strategy = "balanced"
    THEN QAdd(QAdd(QAdd(QMul(QDec(35, 2), operational_co2),
                        QMul(QDec(35, 2), embodied_co2)),
                   QMul(QDec(2, 1), QDiv(QInt(latency), QInt(1000)))),
              QMul(QDec(1, 1), cost))
    ELSE QAdd(QAdd(QMul(QDec(7, 1), operational_co2),
                   QMul(QDec(2, 1), QDiv(QInt(latency), QInt(1000)))),
              QMul(QDec(1, 1), cost))

\* lines 361-364: the hybrid carbon intensity from the two lookups
HybridCI(live, hist) ==
    LET ci_live == Or(live, Some(DEFAULT_CI))
        ci_hist == Or(hist, ci_live)
    IN  QAdd(QMul(QDec(7, 1), QInt(ci_live[1])), QMul(QDec(3, 1), QInt(ci_hist[1])))

\* lines 407-422: the record of a candidate, with the exception its
\* evaluation raised and raw, the unrounded score the best is tracked by
CandidateRecord(region, server_age, ci, exc, tc, debt_ratio, score) ==
    [exc |-> exc,
     raw |-> score,
     rec |-> [region |-> region,
              server_age |-> server_age,
              server_age_years |-> SERVER_SPECS[server_age].age_years,
              carbon_intensity |-> Round(ci, 2),
              operational_co2_g |-> Round(tc.operational_co2_g, 6),
              embodied_co2_g |-> Round(tc.embodied_co2_g, 6),
              total_co2_g |-> Round(tc.total_co2_g, 6),
              carbon_debt_ratio |-> Round(debt_ratio, 3),
              power_consumption_w |->
                  Round(calculate_power_consumption(
                            QInt(BASE_POWER_W), SERVER_SPECS[server_age].age_years,
                            EFFICIENCY_DEGRADATION_RATE), 2),
              latency_ms |-> REGION_DATACENTERS[region].latency_ms,
              cost_factor |-> REGION_DATACENTERS[region].cost_factor,
              score |-> Round(score, 6),
              available_servers |-> REGION_DATACENTERS[region].servers[server_age]]]

\* lines 383-405: the candidate scored from its emissions and its debt ratio
CandidateScored(region, server_age, ci, strategy, exc, tc, debt_ratio) ==
    CandidateRecord(region, server_age, ci, exc, tc, debt_ratio,
                    Score(strategy, tc.operational_co2_g, tc.embodied_co2_g,
                          tc.total_co2_g, debt_ratio,
                          REGION_DATACENTERS[region].latency_ms,
                          REGION_DATACENTERS[region].cost_factor))

\* lines 371-422: one (region, server age) candidate, on a server of the
\* class whose specs record is specs
CandidateOf(region, server_age, specs, ci, duration_s, strategy) ==
    CandidateScored(region, server_age, ci, strategy,
                    TotalCarbonExcOf(specs, duration_s),
                    TotalCarbonOf(specs, duration_s, ci),
                    calculate_carbon_debt_ratio(
                        specs.age_years, specs.expected_lifetime_years))

\* line 376: specs = SERVER_SPECS[server_age]
Candidate(region, server_age, ci, duration_s, strategy) ==
    CandidateOf(region, server_age, SERVER_SPECS[server_age], ci, duration_s, strategy)

\* The two module-level tables as a call finds them: the servers available
\* of each class in each region and the embodied carbon of each class.
\* Installed is the tables as the module defines them (lines 34-93).
Installed ==
    [available |-> [r \in Regions |-> REGION_DATACENTERS[r].servers],
     embodied_kg |-> [a \in DOMAIN SERVER_SPECS |-> SERVER_SPECS[a].total_embodied_kg]]

(* The inputs of the model.  Durations are in seconds: none, a tenth of a   *)
(* millisecond, the 15 s of the demo, and fifty hours.  The SLA bounds lie  *)
(* below every latency (50), on the lowest latency (70), between latencies  *)
(* (100) and above all of them (2000, the default).                         *)
Durations == {QInt(0), QDec(1, 4), QInt(15), QInt(180000)}
SLAs == {50, 70, 100, 2000}
StrategyNames == Strategies \cup {"carbon_first"}

ApiAnswers == {RequestError, Response(None), Response(Some(0)), Response(Some(400)),
               Response(Some(700))}
FileStates == {NoFile, Unreadable, File(0), File(500)}

\* the answers to the calls on edited tables: a failure, and a grid at 250 and
\* at 400 gCO2/kWh
TableAnswers == {RequestError, Response(Some(250)), Response(Some(400))}

\* every value the two lookups can return, and every hybrid intensity
LiveReturns ==
    {a.carbonIntensity : a \in ApiAnswers \cup TableAnswers} \cup {Some(DEFAULT_CI)}
HistReturns == {get_recent_historical_ci(f) : f \in FileStates}
HybridCIs == {HybridCI(l, h) : l \in LiveReturns, h \in HistReturns}

\* the embodied carbon of a server class: the 660 kg of SERVER_SPECS, and ten
\* times as much
ClassKgs == {QInt(660), QInt(6600)}

\* Candidate is a pure function of its arguments: each value is computed once
CandidateTable ==
    [region \in Regions, server_age \in DOMAIN SERVER_SPECS, kg \in ClassKgs,
     ci \in HybridCIs, duration_s \in Durations, strategy \in StrategyNames |->
        CandidateOf(region, server_age,
                    [SERVER_SPECS[server_age] EXCEPT !.total_embodied_kg = kg],
                    ci, duration_s, strategy)]

\* the filter with  latency >= sla_ms: continue  instead
MeetsSLA_strict(latency, sla_ms) == latency < sla_ms

\* lines 358-359: the SLA filter
MeetsSLA(latency, sla_ms) == ~(latency > sla_ms)

\* lines 368-369: the capacity check
HasCapacity(available) == ~(available <= 0)

\* lines 367-424: the candidates of one region, in the order of its servers
\* line 421: the record carries the capacity the call found
Available(c, available) == [c EXCEPT !.rec.available_servers = available]

RECURSIVE RegionCandidates(_, _, _, _, _, _)
RegionCandidates(tables, region, j, ci, duration_s, strategy) ==
    IF j > Len(ServerAges) THEN <<>>
    ELSE (IF HasCapacity(tables.available[region][ServerAges[j]])
          THEN <<Available(CandidateTable[region, ServerAges[j],
                                          tables.embodied_kg[ServerAges[j]],
                                          ci, duration_s, strategy],
                           tables.available[region][ServerAges[j]])>>
          ELSE <<>>)
         \o RegionCandidates(tables, region, j + 1, ci, duration_s, strategy)

\* what a call saw of a lookup: not made (Unread) or its return value
Unread == [read |-> FALSE, value |-> None]
Read(v) == [read |-> TRUE, value |-> v]

\* the exception of the first candidate whose evaluation raised
RECURSIVE FirstException(_, _)
FirstException(cs, k) ==
    IF k > Len(cs) THEN "none"
    ELSE IF cs[k].exc # "none" THEN cs[k].exc
    ELSE FirstException(cs, k + 1)

\* The loop over the regions keeps acc = [exc, cache, cands, live, hist]: the
\* exception that ended the loop, the estimator's cache, the candidates so
\* far and what the lookups returned.
\* lines 367-428: the candidates cs of a region join the others
RegionScored(region, acc, g, h, cs) ==
    [exc |-> FirstException(cs, 1),
     cache |-> g.cache,
     cands |-> acc.cands \o cs,
     live |-> [acc.live EXCEPT ![region] = Read(g.ret)],
     hist |-> [acc.hist EXCEPT ![region] = Read(h)]]

\* lines 361-364: the live lookup returned g; the historical lookup raised
\* hexc or returned h
RegionRead(tables, region, acc, duration_s, strategy, g, hexc, h) ==
    IF hexc # "none"
    THEN [acc EXCEPT !.exc = hexc, !.cache = g.cache, !.live[region] = Read(g.ret)]
    ELSE RegionScored(region, acc, g, h,
                      RegionCandidates(tables, region, 1, HybridCI(g.ret, h),
                                       duration_s, strategy))

\* lines 354-428: one pass of the loop
ScanRegion(tables, region, acc, duration_s, sla_ms, strategy, t, api, files) ==
    IF ~MeetsSLA(REGION_DATACENTERS[region].latency_ms, sla_ms) THEN acc
    ELSE RegionRead(tables, region, acc, duration_s, strategy,
                    get_live_ci(region, acc.cache, t, api[region]),
                    get_recent_historical_ci_exc(files[region]),
                    get_recent_historical_ci(files[region]))

\* lines 353-428: the loop over the regions from RegionOrder[i] on
RECURSIVE ScanRegions(_, _, _, _, _, _, _, _, _)
ScanRegions(tables, i, acc, duration_s, sla_ms, strategy, t, api, files) ==
    IF i > Len(RegionOrder) \/ acc.exc # "none" THEN acc
    ELSE ScanRegions(tables, i + 1,
                     ScanRegion(tables, RegionOrder[i], acc, duration_s, sla_ms,
                                strategy, t, api, files),
                     duration_s, sla_ms, strategy, t, api, files)

\* the comparison turned round: the highest score wins
IsBetter_highest(c, b) == QLt(b.raw, c.raw)

\* lines 348-349, 426-428: best_score starts at infinity (best = 0: none yet)
\* and a candidate replaces the best when its unrounded score is strictly
\* lower.  Rounding is monotone, so two scores whose roundings differ compare
\* as their roundings do, and only equal roundings need the exact comparison.
IsBetter(c, b) ==
    LET r == RCmp(c.rec.score, b.rec.score)
    IN  IF r # 0 THEN r < 0 ELSE QLt(c.raw, b.raw)

RECURSIVE TrackBest(_, _, _)
TrackBest(cands, k, best) ==
    IF k > Len(cands) THEN best
    ELSE TrackBest(cands, k + 1,
                   IF best = 0 \/ IsBetter(cands[k], cands[best]) THEN k ELSE best)

BestIndex(cands) == TrackBest(cands, 1, 0)

\* line 444: sorted(candidates, key=score) on the rounded scores; the sort
\* is stable, so a record goes behind the records of equal score before it
SortsBefore(a, b) == RCmp(a.score, b.score) < 0

RECURSIVE Insert(_, _)
Insert(sorted, c) ==
    IF sorted = <<>> THEN <<c>>
    ELSE IF SortsBefore(c, Head(sorted)) THEN <<c>> \o sorted
    ELSE <<Head(sorted)>> \o Insert(Tail(sorted), c)

RECURSIVE Sorted(_, _)
Sorted(recs, k) ==
    IF k = 0 THEN <<>> ELSE Insert(Sorted(recs, k - 1), recs[k])

\* the first three candidates in the order of the loop, not sorted
Top3_unsorted(recs) == SubSeq(recs, 1, IF Len(recs) < 3 THEN Len(recs) ELSE 3)

\* line 445: candidates_sorted[:3]
Top3(recs) ==
    LET candidates_sorted == Sorted(recs, Len(recs))
    IN  SubSeq(candidates_sorted, 1, IF Len(recs) < 3 THEN Len(recs) ELSE 3)

FallbackChoice == [region |-> "Northern", server_age |-> "medium",
                   error |-> "No servers met SLA constraints"]

\* lines 447-468: what the call gives back.  exc is the exception it raises
\* ("none" when it returns), ret the dictionary it returns; candidates and
\* best are the list and the index of the best at the end of the loop.
Outcome(acc, recs, best, exc, best_choice) ==
    [exc |-> exc,
     ret |-> IF exc # "none" THEN [raised |-> exc] ELSE best_choice,
     cache |-> acc.cache,
     candidates |-> IF acc.exc # "none" THEN <<>> ELSE recs,
     best |-> IF acc.exc # "none" THEN 0 ELSE best,
     live |-> acc.live,
     hist |-> acc.hist]

\* lines 430-466: the fallback, the comparison info added to best_choice,
\* and the verbose report, which reads best_choice['server_age_years']
Chosen(duration_s, sla_ms, strategy, verbose, acc, recs, best) ==
    Outcome(acc, recs, best,
            IF acc.exc # "none" THEN acc.exc
            ELSE IF verbose /\ best = 0 THEN "KeyError"
            ELSE "none",
            (IF best = 0 THEN FallbackChoice ELSE recs[best])
                @@ [strategy |-> strategy, duration_s |-> duration_s,
                    sla_ms |-> sla_ms, top_3_alternatives |-> Top3(recs)])

\* lines 424-428: the candidates' records and the best of them
Scanned(duration_s, sla_ms, strategy, verbose, acc) ==
    Chosen(duration_s, sla_ms, strategy, verbose, acc,
           [k \in 1..Len(acc.cands) |-> acc.cands[k].rec], BestIndex(acc.cands))

\* choose_region_embodied_aware: [exc, ret, cache, candidates, best, live,
\* hist], on the tables as the call finds them
ChooseOn(tables, duration_s, sla_ms, strategy, verbose, cache, t, api, files) ==
    Scanned(duration_s, sla_ms, strategy, verbose,
            ScanRegions(tables, 1,
                        [exc |-> "none", cache |-> cache, cands |-> <<>>,
                         live |-> [r \in Regions |-> Unread],
                         hist |-> [r \in Regions |-> Unread]],
                        duration_s, sla_ms, strategy, t, api, files))

choose_region_embodied_aware(duration_s, sla_ms, strategy, verbose, cache, t, api, files) ==
    ChooseOn(Installed, duration_s, sla_ms, strategy, verbose, cache, t, api, files)

(* ------------------------------- the state ----------------------------- *)

VARIABLES
    now,        \* time.time(), in seconds
    ci_cache,   \* estimator._ci_cache: region -> None or [ci, ts]
    api,        \* what the remote answers for each region
    files,      \* the historical CSV of each region
    tracker,    \* an EmbodiedCarbonTracker: its start_time and telemetry_data
    call        \* the call in progress or just returned, "idle" between calls

vars == <<now, ci_cache, api, files, tracker, call>>

\* embodied_carbon.py lines 129-130: the tracker as __init__ leaves it, with
\* two history fields: whether start_tracking was ever called, and the
\* sample_telemetry calls that returned since the last start_tracking
NewTracker == [start_time |-> None, telemetry_data |-> <<>>,
               started |-> FALSE, sampled |-> 0]

Idle == [op |-> "idle"]

\* The environment of a behaviour: all regions answer alike and hold the same
\* file, except that one region may differ in its answer or in its file.
OddRegion == "Western"


Init ==
    /\ now = 0
    /\ ci_cache = [r \in Regions |-> None]
    /\ \E a \in ApiAnswers, aw \in ApiAnswers, f \in FileStates, fw \in FileStates :
          /\ aw = a \/ fw = f
          /\ api = [r \in Regions |-> IF r = OddRegion THEN aw ELSE a]
          /\ files = [r \in Regions |-> IF r = OddRegion THEN fw ELSE f]
    /\ call = Idle
    /\ tracker = NewTracker

\* the call returned or raised: r is what choose_region_embodied_aware gives
Scheduling(duration_s, sla_ms, strategy, verbose, r) ==
    /\ ci_cache' = r.cache
    /\ call' = [op |-> "choose_region_embodied_aware",
                duration_s |-> duration_s, sla_ms |-> sla_ms,
                strategy |-> strategy, verbose |-> verbose,
                exc |-> r.exc, ret |-> r.ret, candidates |-> r.candidates,
                best |-> r.best, live |-> r.live, hist |-> r.hist]

Schedule(duration_s, sla_ms, strategy, verbose) ==
    /\ call = Idle
    /\ Scheduling(duration_s, sla_ms, strategy, verbose,
                  choose_region_embodied_aware(duration_s, sla_ms, strategy, verbose,
                                               ci_cache, now, api, files))
    /\ UNCHANGED <<now, api, files, tracker>>

Return ==
    /\ call # Idle
    /\ call' = Idle
    /\ UNCHANGED <<now, ci_cache, api, files, tracker>>

Next ==
    \/ \E d \in Durations, s \in SLAs, st \in StrategyNames, v \in BOOLEAN :
          Schedule(d, s, st, v)
    \/ Return

Spec == Init /\ [][Next]_vars

(* ------------------- the carbon calculations called alone -------------- *)

\* The arguments the calculations are called with: no embodied carbon, the
\* 660 kg of SERVER_SPECS and ten times that; ages in half years from new to
\* beyond the lifetime; lifetimes in whole years; the durations of the
\* scheduler in hours, one hour and one day.
EmbodiedKgs == {QInt(0), QInt(660), QInt(6600)}
MaxHalfYears == 12
AgeYears == {QDec(5 * h, 1) : h \in 0..MaxHalfYears}
MaxLifetimeYears == 5
LifetimeYears == {QInt(l) : l \in 1..MaxLifetimeYears}
DurationHours == {QDiv(d, QInt(3600)) : d \in Durations} \cup {QInt(1), QInt(24)}
CarbonIntensities == HybridCIs \cup {QInt(0)}

InitCarbon ==
    /\ now = 0
    /\ ci_cache = [r \in Regions |-> None]
    /\ api = [r \in Regions |-> RequestError]
    /\ files = [r \in Regions |-> NoFile]
    /\ call = Idle
    /\ tracker = NewTracker

\* a call of a calculation: exc is the exception it raises ("none" when it
\* returns) and ret the value it returns
Calling(op, args, exc, ret) ==
    call' = [op |-> op, exc |-> exc, ret |-> IF exc # "none" THEN None ELSE Some(ret)]
                @@ args

EmbodiedCall(total_embodied_kg, age_years, expected_lifetime_years, duration_hours) ==
    /\ call = Idle
    /\ Calling("calculate_amortized_embodied_carbon",
               [total_embodied_kg |-> total_embodied_kg, age_years |-> age_years,
                expected_lifetime_years |-> expected_lifetime_years,
                duration_hours |-> duration_hours],
               calculate_amortized_embodied_carbon_exc(
                   total_embodied_kg, age_years, expected_lifetime_years,
                   duration_hours),
               calculate_amortized_embodied_carbon(
                   total_embodied_kg, age_years, expected_lifetime_years,
                   duration_hours))
    /\ UNCHANGED <<now, ci_cache, api, files, tracker>>

TotalCarbonCall(server_age, duration_seconds, carbon_intensity) ==
    /\ call = Idle
    /\ Calling("calculate_total_carbon",
               [server_age |-> server_age, duration_seconds |-> duration_seconds,
                carbon_intensity |-> carbon_intensity],
               calculate_total_carbon_exc(server_age, duration_seconds),
               calculate_total_carbon(server_age, duration_seconds, carbon_intensity))
    /\ UNCHANGED <<now, ci_cache, api, files, tracker>>

NextCarbon ==
    \/ \E kg \in EmbodiedKgs, age \in AgeYears, l \in LifetimeYears, h \in DurationHours :
          EmbodiedCall(kg, age, l, h)
    \/ \E a \in DOMAIN SERVER_SPECS, d \in Durations, ci \in CarbonIntensities :
          TotalCarbonCall(a, d, ci)
    \/ Return

SpecCarbon == InitCarbon /\ [][NextCarbon]_vars

(* ------------- the calculations called with any arguments ------------- *)

\* Arguments outside the documented ranges as well: negative ages, lifetimes
\* of zero and below, negative durations, negative degradation rates.
ArgAgeYears == AgeYears \cup {QInt(-1), QDec(-5, 1)}
ArgLifetimeYears == LifetimeYears \cup {QInt(0), QInt(-5)}
ArgDurationHours == DurationHours \cup {QInt(-1)}
ArgDurations == Durations \cup {QInt(-15)}
BasePowers == {QInt(0), QInt(BASE_POWER_W), QInt(300)}
Alphas == {QInt(0), EFFICIENCY_DEGRADATION_RATE, QInt(1), QDec(-12, 2)}

DebtRatioCall(age_years, expected_lifetime_years) ==
    /\ call = Idle
    /\ Calling("calculate_carbon_debt_ratio",
               [age_years |-> age_years,
                expected_lifetime_years |-> expected_lifetime_years],
               calculate_carbon_debt_ratio_exc(age_years, expected_lifetime_years),
               calculate_carbon_debt_ratio(age_years, expected_lifetime_years))
    /\ UNCHANGED <<now, ci_cache, api, files, tracker>>

PowerCall(base_power_w, age_years, alpha) ==
    /\ call = Idle
    /\ Calling("calculate_power_consumption",
               [base_power_w |-> base_power_w, age_years |-> age_years,
                alpha |-> alpha],
               calculate_power_consumption_exc(base_power_w, age_years, alpha),
               calculate_power_consumption(base_power_w, age_years, alpha))
    /\ UNCHANGED <<now, ci_cache, api, files, tracker>>

NextArgs ==
    \/ \E age \in ArgAgeYears, l \in ArgLifetimeYears : DebtRatioCall(age, l)
    \/ \E b \in BasePowers, age \in ArgAgeYears, al \in Alphas : PowerCall(b, age, al)
    \/ \E kg \in EmbodiedKgs, age \in ArgAgeYears, l \in ArgLifetimeYears, h \in ArgDurationHours :
          EmbodiedCall(kg, age, l, h)
    \/ \E a \in DOMAIN SERVER_SPECS, d \in ArgDurations, ci \in CarbonIntensities :
          TotalCarbonCall(a, d, ci)
    \/ Return

SpecArgs == InitCarbon /\ [][NextArgs]_vars

(* ---------- scheduler_embodied_aware.py: hardware replacement ---------- *)

\* float('inf') and the nan of inf - inf, beside the rationals
Infinity == [neg |-> FALSE, n |-> <<1>>, d |-> <<>>]
NaN == [neg |-> FALSE, n |-> <<>>, d |-> <<>>]

\* lines 314-320
BreakEvenHours(embodied_diff, operational_savings_per_hour) ==
    IF QLe(operational_savings_per_hour, QInt(0)) THEN Infinity
    ELSE QDiv(embodied_diff, operational_savings_per_hour)

\* The new server's power is that of a server of 0.5 years whatever
\* new_server_age is (line 307), and its embodied carbon is the whole of
\* total_embodied_kg times the multiplier (lines 294-295).
calculate_break_even_time(old_server_age, new_server_age, carbon_intensity) ==
    BreakEvenHours(
        QSub(QMul(QMul(SERVER_SPECS[new_server_age].total_embodied_kg, QInt(1000)),
                  NEW_HARDWARE_CARBON_MULTIPLIER),
             QMul(QMul(SERVER_SPECS[old_server_age].total_embodied_kg, QInt(1000)),
                  calculate_carbon_debt_ratio(
                      SERVER_SPECS[old_server_age].age_years,
                      SERVER_SPECS[old_server_age].expected_lifetime_years))),
        QMul(QMul(QSub(QDiv(calculate_power_consumption(
                                QInt(BASE_POWER_W),
                                SERVER_SPECS[old_server_age].age_years,
                                EFFICIENCY_DEGRADATION_RATE), QInt(1000)),
                       QDiv(calculate_power_consumption(
                                QInt(BASE_POWER_W), QDec(5, 1),
                                EFFICIENCY_DEGRADATION_RATE), QInt(1000))),
                  carbon_intensity),
             PUE_DEFAULT))

\* round(x, k) of a float that may be inf or nan, which round leaves alone
XRound(x, k) == IF x.d = <<>> THEN x ELSE Round(x, k)

\* lines 509, 512 and 514: the totals over total_hours and their
\* difference.  Over infinitely many hours, at a positive intensity and with
\* debt left, both totals are inf and the difference is nan.
LifetimeTotal(server_age, total_hours, ci) ==
    IF total_hours = Infinity THEN Infinity
    ELSE calculate_total_carbon(server_age, QMul(total_hours, QInt(3600)), ci).total_co2_g

LifetimeTotalExc(server_age, total_hours) ==
    IF total_hours = Infinity THEN "none"
    ELSE calculate_total_carbon_exc(server_age, QMul(total_hours, QInt(3600)))

XSub(x, y) ==
    IF x = Infinity /\ y = Infinity THEN NaN
    ELSE IF x = Infinity THEN Infinity
    ELSE IF y = Infinity THEN [Infinity EXCEPT !.neg = TRUE]
    ELSE QSub(x, y)

\* lines 516-552: the dictionary returned (the fields the analysis decides)
AnalysisRecord(region, ci, break_even_hours, should_replace, old_total, new_total) ==
    [region |-> region,
     carbon_intensity |-> Round(ci, 2),
     break_even |-> [hours |-> XRound(break_even_hours, 2)],
     recommendation |->
         [should_replace |-> should_replace,
          reason |-> IF should_replace
                     THEN <<"Replace now - breaks even in",
                            Round(QDiv(break_even_hours, QInt(24)), 1), "days">>
                     ELSE <<"Keep old server - break-even exceeds remaining lifetime">>],
     lifetime_analysis |->
         [old_server_total_co2_g |-> XRound(old_total, 2),
          new_server_total_co2_g |-> XRound(new_total, 2),
          difference_g |-> XRound(XSub(old_total, new_total), 2)]]

\* lines 509-531: the exception of the two totals, then of the lookup of
\* new_specs["base_power_w"], a key SERVER_SPECS does not hold
AnalysisExc(old_age, new_age, total_hours) ==
    IF LifetimeTotalExc(old_age, total_hours) # "none"
    THEN LifetimeTotalExc(old_age, total_hours)
    ELSE IF LifetimeTotalExc(new_age, total_hours) # "none"
    THEN LifetimeTotalExc(new_age, total_hours)
    ELSE IF "base_power_w" \notin DOMAIN SERVER_SPECS[new_age] THEN "KeyError"
    ELSE "none"

\* what the call leaves behind: the exception it raises ("none" when it
\* returns), the cache, its local values and, when it returns, the dictionary
\* of lines 516-552
AnalysisOutcome(region, old_age, new_age, cache, ci, break_even_hours, remaining_life_hours, should_replace, total_hours, exc) ==
    [exc |-> exc,
     cache |-> cache,
     ci |-> Some(ci),
     break_even_hours |-> Some(break_even_hours),
     remaining_life_hours |-> Some(remaining_life_hours),
     should_replace |-> Some(should_replace),
     record |-> IF exc # "none" THEN None
                ELSE AnalysisRecord(region, ci, break_even_hours, should_replace,
                                    LifetimeTotal(old_age, total_hours, ci),
                                    LifetimeTotal(new_age, total_hours, ci))]

\* lines 504-531, once the decision is taken
AnalysisDecided(region, old_age, new_age, cache, ci, break_even_hours, remaining_life_hours, should_replace, total_hours) ==
    CHOOSE r \in
        {AnalysisOutcome(region, old_age, new_age, cache, ci, break_even_hours,
                         remaining_life_hours, should_replace, total_hours, exc) :
            exc \in {AnalysisExc(old_age, new_age, total_hours)}} :
        TRUE

\* the comparison of line 500 never made: the old server always kept
AnalysisCompared_never_replace(region, old_age, new_age, cache, ci, break_even_hours, remaining_life_hours) ==
    AnalysisDecided(region, old_age, new_age, cache, ci, break_even_hours,
                    remaining_life_hours, FALSE, break_even_hours)

\* line 500: inf is below no remaining life
AnalysisCompared(region, old_age, new_age, cache, ci, break_even_hours, remaining_life_hours) ==
    IF break_even_hours # Infinity /\ QLt(break_even_hours, remaining_life_hours)
    THEN AnalysisDecided(region, old_age, new_age, cache, ci, break_even_hours,
                         remaining_life_hours, TRUE, remaining_life_hours)
    ELSE AnalysisDecided(region, old_age, new_age, cache, ci, break_even_hours,
                         remaining_life_hours, FALSE, break_even_hours)

\* lines 489-497: the break-even time is computed once, then compared
AnalysisWithCI(region, old_age, new_age, cache, ci) ==
    CHOOSE r \in
        {AnalysisCompared(region, old_age, new_age, cache, ci, break_even_hours,
                          QMul(QMul(QSub(SERVER_SPECS[old_age].expected_lifetime_years,
                                         SERVER_SPECS[old_age].age_years),
                                    QDec(36525, 2)), QInt(24))) :
            break_even_hours \in {calculate_break_even_time(old_age, new_age, ci)}} :
        TRUE

\* lines 484-486: g is what get_live_ci gives; the historical lookup may raise
AnalysisRead(region, old_age, new_age, g, file) ==
    IF get_recent_historical_ci_exc(file) # "none"
    THEN [exc |-> get_recent_historical_ci_exc(file), cache |-> g.cache,
          ci |-> None, break_even_hours |-> None, remaining_life_hours |-> None,
          should_replace |-> None, record |-> None]
    ELSE AnalysisWithCI(region, old_age, new_age, g.cache,
                        HybridCI(g.ret, get_recent_historical_ci(file)))

analyze_hardware_replacement(region, old_age, new_age, cache, t, answers, fs) ==
    AnalysisRead(region, old_age, new_age,
                 get_live_ci(region, cache, t, answers[region]), fs[region])

\* The environment of the analysis: every region answers alike and holds the
\* same file; an intensity of 5000 is one at which replacement pays off.
ReplaceAnswers == ApiAnswers \cup {Response(Some(5000))}
BreakEvenCIs == {QInt(0), QInt(430), QInt(700), QInt(5000)}

InitReplace ==
    /\ now = 0
    /\ ci_cache = [r \in Regions |-> None]
    /\ \E a \in ReplaceAnswers, f \in FileStates :
          /\ api = [r \in Regions |-> a]
          /\ files = [r \in Regions |-> f]
    /\ call = Idle
    /\ tracker = NewTracker

BreakEvenCall(old_server_age, new_server_age, carbon_intensity) ==
    /\ call = Idle
    /\ Calling("calculate_break_even_time",
               [old_server_age |-> old_server_age, new_server_age |-> new_server_age,
                carbon_intensity |-> carbon_intensity],
               "none",
               calculate_break_even_time(old_server_age, new_server_age,
                                         carbon_intensity))
    /\ UNCHANGED <<now, ci_cache, api, files, tracker>>

\* the call returned or raised: r is what analyze_hardware_replacement gives
Analyzing(region, old_age, new_age, r) ==
    /\ ci_cache' = r.cache
    /\ call' = [op |-> "analyze_hardware_replacement",
                region |-> region, old_age |-> old_age, new_age |-> new_age,
                exc |-> r.exc,
                ret |-> IF r.exc # "none" THEN [raised |-> r.exc] ELSE r.record,
                ci |-> r.ci, break_even_hours |-> r.break_even_hours,
                remaining_life_hours |-> r.remaining_life_hours,
                should_replace |-> r.should_replace]

Analyze(region, old_age, new_age) ==
    /\ call = Idle
    /\ Analyzing(region, old_age, new_age,
                 analyze_hardware_replacement(region, old_age, new_age,
                                              ci_cache, now, api, files))
    /\ UNCHANGED <<now, api, files, tracker>>

NextReplace ==
    \/ \E o \in DOMAIN SERVER_SPECS, n \in DOMAIN SERVER_SPECS, ci \in BreakEvenCIs :
          BreakEvenCall(o, n, ci)
    \/ \E r \in Regions, o \in DOMAIN SERVER_SPECS, n \in DOMAIN SERVER_SPECS :
          Analyze(r, o, n)
    \/ Return

SpecReplace == InitReplace /\ [][NextReplace]_vars

(* ------------------ invocations that share the cache ------------------ *)

\* Invocations of the scheduler that overlap, while the remote changes its
\* answer: every region answers alike, and no region holds a file.
SharedAnswers == {RequestError, Response(Some(400)), Response(Some(700))}
SharedStrategies == {"balanced", "operational_only"}
EmptyCache == [r \in Regions |-> None]

InitShared ==
    /\ now = 0
    /\ ci_cache = EmptyCache
    /\ \E a \in SharedAnswers : api = [r \in Regions |-> a]
    /\ files = [r \in Regions |-> NoFile]
    /\ call = Idle
    /\ tracker = NewTracker

\* a second invocation runs while the first, its lookups done, has not yet
\* returned to its caller
Overlap(duration_s, sla_ms, strategy, verbose) ==
    /\ call.op = "choose_region_embodied_aware"
    /\ Scheduling(duration_s, sla_ms, strategy, verbose,
                  choose_region_embodied_aware(duration_s, sla_ms, strategy, verbose,
                                               ci_cache, now, api, files))
    /\ UNCHANGED <<now, api, files, tracker>>

\* the remote answers differently from now on
ApiChange(a) ==
    /\ api # [r \in Regions |-> a]
    /\ api' = [r \in Regions |-> a]
    /\ UNCHANGED <<now, ci_cache, files, tracker, call>>

NextShared ==
    \/ \E s \in SLAs, st \in SharedStrategies : Schedule(QInt(15), s, st, FALSE)
    \/ \E s \in SLAs, st \in SharedStrategies : Overlap(QInt(15), s, st, FALSE)
    \/ \E a \in SharedAnswers : ApiChange(a)
    \/ Return

SpecShared == InitShared /\ [][NextShared]_vars

(* ----------------- the scheduler on edited tables ---------------------- *)

\* REGION_DATACENTERS and SERVER_SPECS are module-level dictionaries: a call
\* reads them as it finds them.  The capacities a call may find: as
\* installed, Northern without new servers, Northern without any server
\* (a negative count included), and no server anywhere.
NorthernOut == [new |-> 0, medium |-> -1, old |-> 0]
NoServers == [new |-> 0, medium |-> 0, old |-> 0]
AvailableChoices ==
    {Installed.available,
     [Installed.available EXCEPT !["Northern"]["new"] = 0],
     [Installed.available EXCEPT !["Northern"] = NorthernOut],
     [r \in Regions |-> NoServers]}

\* the embodied carbon a call may find: as installed, ten times as much for
\* every class, and ten times as much for the new servers only
KgChoices ==
    {Installed.embodied_kg,
     [a \in DOMAIN SERVER_SPECS |-> QInt(6600)],
     [Installed.embodied_kg EXCEPT !["new"] = QInt(6600)]}

TableChoices == [available : AvailableChoices, embodied_kg : KgChoices]

InitTables ==
    /\ now = 0
    /\ ci_cache = EmptyCache
    /\ \E a \in TableAnswers : api = [r \in Regions |-> a]
    /\ files = [r \in Regions |-> NoFile]
    /\ call = Idle
    /\ tracker = NewTracker

\* the call on the tables it found returned or raised: r is what it gives
SchedulingOn(tables, duration_s, sla_ms, strategy, verbose, r) ==
    /\ ci_cache' = r.cache
    /\ call' = [op |-> "choose_region_embodied_aware", tables |-> tables,
                duration_s |-> duration_s, sla_ms |-> sla_ms,
                strategy |-> strategy, verbose |-> verbose,
                exc |-> r.exc, ret |-> r.ret, candidates |-> r.candidates,
                best |-> r.best, live |-> r.live, hist |-> r.hist]

ScheduleOn(tables, duration_s, sla_ms, strategy, verbose) ==
    /\ call = Idle
    /\ SchedulingOn(tables, duration_s, sla_ms, strategy, verbose,
                    ChooseOn(tables, duration_s, sla_ms, strategy, verbose,
                             ci_cache, now, api, files))
    /\ UNCHANGED <<now, api, files, tracker>>

NextTables ==
    \/ \E tb \in TableChoices, d \in Durations, s \in SLAs, st \in Strategies,
          v \in BOOLEAN : ScheduleOn(tb, d, s, st, v)
    \/ Return

SpecTables == InitTables /\ [][NextTables]_vars

(* ------------------------ calls of get_live_ci ------------------------- *)

\* Calls of get_live_ci as time passes and the remote changes its answer.
\* The regions asked for: two of ZONE_MAP and one that is not in it.
LiveRegions == {"Northern", "Western", "Central"}
LiveAnswers == {RequestError, Response(None), Response(Some(400))}

\* time.time() moves on by TickSeconds, up to MaxTime
TickSeconds == 150
MaxTime == 450

InitLive ==
    /\ now = 0
    /\ ci_cache = EmptyCache
    /\ \E a \in LiveAnswers : api = [r \in Regions |-> a]
    /\ files = [r \in Regions |-> NoFile]
    /\ call = Idle
    /\ tracker = NewTracker

\* the answer the remote would give for a region (none is asked for a region
\* that is not in ZONE_MAP)
Answer(region) == IF region \in Regions THEN api[region] ELSE RequestError

LiveReturning(region, r) ==
    /\ ci_cache' = r.cache
    /\ call' = [op |-> "get_live_ci", region |-> region, ret |-> r.ret]

LiveCall(region) ==
    /\ call = Idle
    /\ LiveReturning(region, get_live_ci(region, ci_cache, now, Answer(region)))
    /\ UNCHANGED <<now, api, files, tracker>>

Tick ==
    /\ now + TickSeconds <= MaxTime
    /\ now' = now + TickSeconds
    /\ UNCHANGED <<ci_cache, api, files, tracker, call>>

NextLive ==
    \/ \E r \in LiveRegions : LiveCall(r)
    \/ \E a \in LiveAnswers : ApiChange(a)
    \/ Tick
    \/ Return

SpecLive == InitLive /\ [][NextLive]_vars

(* --------------- embodied_carbon.py: EmbodiedCarbonTracker ------------- *)

\* collect_telemetry: a sample, of which the time of collection is kept
collect_telemetry(t) == [timestamp |-> t]

\* The three methods give [exc, ret, tracker]: the exception raised ("none"
\* when the method returns), the value returned and the tracker afterwards.
start_tracking(tr, t) ==
    [exc |-> "none",
     ret |-> Some(collect_telemetry(t)),
     tracker |-> [start_time |-> Some(t),
                  telemetry_data |-> <<collect_telemetry(t)>>,
                  started |-> TRUE, sampled |-> 0]]

\* sample_telemetry without the check of lines 257-258
sample_telemetry_unchecked(tr, t) ==
    [exc |-> "none",
     ret |-> Some(collect_telemetry(t)),
     tracker |-> [tr EXCEPT !.telemetry_data = Append(@, collect_telemetry(t)),
                            !.sampled = @ + 1]]

sample_telemetry(tr, t) ==
    IF tr.start_time = None
    THEN [exc |-> "RuntimeError", ret |-> None, tracker |-> tr]
    ELSE [exc |-> "none",
          ret |-> Some(collect_telemetry(t)),
          tracker |-> [tr EXCEPT !.telemetry_data = Append(@, collect_telemetry(t)),
                                 !.sampled = @ + 1]]

\* lines 274-318: the result of stop_tracking, of which the duration and the
\* telemetry entries are kept; telemetry_history is the list itself
TrackingResult(tr, t) ==
    [duration_seconds |-> t - tr.start_time[1],
     telemetry_samples |-> Len(tr.telemetry_data),
     telemetry_history |-> tr.telemetry_data]

stop_tracking(tr, t) ==
    IF tr.start_time = None
    THEN [exc |-> "RuntimeError", ret |-> None, tracker |-> tr]
    ELSE [exc |-> "none",
          ret |-> Some(TrackingResult(
                           [tr EXCEPT !.telemetry_data =
                                          Append(@, collect_telemetry(t))], t)),
          tracker |-> [tr EXCEPT !.telemetry_data = Append(@, collect_telemetry(t))]]

\* telemetry_data grows to at most MaxTelemetry samples
MaxTelemetry == 4

\* a method of the tracker returned or raised
Tracking(op, r) ==
    /\ tracker' = r.tracker
    /\ call' = [op |-> op, exc |-> r.exc, ret |-> r.ret]
    /\ UNCHANGED <<now, ci_cache, api, files>>

StartTracking ==
    /\ call = Idle
    /\ Tracking("start_tracking", start_tracking(tracker, now))

SampleTelemetry ==
    /\ call = Idle
    /\ Len(tracker.telemetry_data) < MaxTelemetry
    /\ Tracking("sample_telemetry", sample_telemetry(tracker, now))

StopTracking ==
    /\ call = Idle
    /\ Len(tracker.telemetry_data) < MaxTelemetry
    /\ Tracking("stop_tracking", stop_tracking(tracker, now))

NextTracker ==
    \/ StartTracking
    \/ SampleTelemetry
    \/ StopTracking
    \/ Tick
    \/ Return

SpecTracker == InitCarbon /\ [][NextTracker]_vars

(* ------- estimate_co2, the reactive and the predictive scheduler ------- *)

POWER_WATTS == 65

\* estimator.py lines 45-46: the intensity estimate_co2 uses, from a numeric
\* live reading
EstimateCI(ci_live, hist, mode) ==
    IF mode = "hybrid"
    THEN QAdd(QMul(QDec(7, 1), QInt(ci_live[1])),
              QMul(QDec(3, 1), QInt(Or(hist, ci_live)[1])))
    ELSE QInt(ci_live[1])

\* lines 42-43, 47: the grams of a task of duration_s at intensity ci
EstimateGrams(duration_s, ci) ==
    QMul(QMul(QDiv(QMul(QInt(POWER_WATTS), QDiv(duration_s, QInt(3600))), QInt(1000)),
              ci),
         PUE_DEFAULT)

\* estimate_co2 after its lookups: the live lookup gave g, the historical
\* one raised hexc or returned h; a live reading of None cannot be multiplied
EstimateRead(duration_s, mode, g, hexc, h) ==
    [exc |-> IF hexc # "none" THEN hexc
             ELSE IF g.ret = None THEN "TypeError" ELSE "none",
     cache |-> g.cache,
     co2_g |-> IF hexc # "none" \/ g.ret = None THEN None
               ELSE Some(Round(EstimateGrams(duration_s, EstimateCI(g.ret, h, mode)), 6))]

\* estimate_co2: [exc, cache, co2_g]
estimate_co2(duration_s, region, mode, cache, t, answers, fs) ==
    EstimateRead(duration_s, mode, get_live_ci(region, cache, t, answers[region]),
                 get_recent_historical_ci_exc(fs[region]),
                 get_recent_historical_ci(fs[region]))

\* scheduler.py lines 3-4 (scheduler_using_lr.py lines 7-8 are the same)
REGION_LATENCY == [Northern |-> 70, Western |-> 90, Southern |-> 80, Eastern |-> 120]
REGION_COST == [Northern |-> (QDec(30, 1)), Western |-> (QDec(28, 1)),
                Southern |-> (QDec(32, 1)), Eastern |-> (QDec(25, 1))]

\* scheduler.py line 15: 0.7*co2 + 0.2*(latency/1000) + 0.1*cost
ReactiveScore(co2, region) ==
    QAdd(QAdd(QMul(QDec(7, 1), co2),
              QMul(QDec(2, 1), QDiv(QInt(REGION_LATENCY[region]), QInt(1000)))),
         QMul(QDec(1, 1), REGION_COST[region]))

\* lines 16-20: the best so far (None: none yet) after a region scored
BetterRegion(best, region, co2_g, score) ==
    IF best = None \/ QLt(score, best[1].raw)
    THEN Some([region |-> region, co2_g |-> co2_g,
               latency_ms |-> REGION_LATENCY[region],
               score |-> Round(score, 6), raw |-> score])
    ELSE best

\* lines 13-20: the region estimated as e joins acc = [exc, cache, best]
ReactiveRegion(acc, region, e) ==
    IF e.exc # "none" THEN [acc EXCEPT !.exc = e.exc, !.cache = e.cache]
    ELSE [exc |-> "none", cache |-> e.cache,
          best |-> BetterRegion(acc.best, region, e.co2_g[1],
                                ReactiveScore(Unround(e.co2_g[1], 6), region))]

RECURSIVE ChooseRegionFrom(_, _, _, _, _, _, _)
ChooseRegionFrom(i, acc, duration_s, sla_ms, t, answers, fs) ==
    IF i > Len(RegionOrder) \/ acc.exc # "none" THEN acc
    ELSE ChooseRegionFrom(
             i + 1,
             IF REGION_LATENCY[RegionOrder[i]] > sla_ms THEN acc
             ELSE ReactiveRegion(acc, RegionOrder[i],
                                 estimate_co2(duration_s, RegionOrder[i], "hybrid",
                                              acc.cache, t, answers, fs)),
             duration_s, sla_ms, t, answers, fs)

\* scheduler.choose_region: [exc, cache, best], best = None when it returns None
choose_region(duration_s, sla_ms, cache, t, answers, fs) ==
    ChooseRegionFrom(1, [exc |-> "none", cache |-> cache, best |-> None],
                     duration_s, sla_ms, t, answers, fs)

\* What the predictive scheduler finds on disk: no feature file and no data
\* to build one from (get_latest_features raises), features but no usable
\* model (predict_lr_next raises), or a prediction.
NoFeatures == [features |-> FALSE, prediction |-> None]
NoModel == [features |-> TRUE, prediction |-> None]
Predicts(v) == [features |-> TRUE, prediction |-> Some(v)]

\* scheduler_using_lr.py lines 35-45: the region scored from the prediction
\* ci_pred and the live lookup g
LRScored(acc, region, duration_s, ci_pred, g) ==
    IF g.ret = None \/ ci_pred = None
    THEN [acc EXCEPT !.exc = "TypeError", !.cache = g.cache]
    ELSE [exc |-> "none", cache |-> g.cache,
          best |-> BetterRegion(
                       acc.best, region,
                       Round(EstimateGrams(duration_s,
                                           EstimateCI(g.ret, ci_pred, "hybrid")), 6),
                       ReactiveScore(EstimateGrams(duration_s,
                                                   EstimateCI(g.ret, ci_pred, "hybrid")),
                                     region))]

\* lines 30-35: the features, the prediction or the live reading in its place
\* (line 34), then the live reading
LRRegion(acc, region, duration_s, lr, t, answers) ==
    IF ~lr.features THEN [acc EXCEPT !.exc = "FileNotFoundError"]
    ELSE IF lr.prediction # None
    THEN LRScored(acc, region, duration_s, lr.prediction,
                  get_live_ci(region, acc.cache, t, answers[region]))
    ELSE LRScored(acc, region, duration_s,
                  get_live_ci(region, acc.cache, t, answers[region]).ret,
                  get_live_ci(region,
                              get_live_ci(region, acc.cache, t, answers[region]).cache,
                              t, answers[region]))

RECURSIVE ChooseWithLRFrom(_, _, _, _, _, _, _)
ChooseWithLRFrom(i, acc, duration_s, sla_ms, lr, t, answers) ==
    IF i > Len(RegionOrder) \/ acc.exc # "none" THEN acc
    ELSE ChooseWithLRFrom(
             i + 1,
             IF REGION_LATENCY[RegionOrder[i]] > sla_ms THEN acc
             ELSE LRRegion(acc, RegionOrder[i], duration_s, lr, t, answers),
             duration_s, sla_ms, lr, t, answers)

\* scheduler_using_lr.choose_region_with_lr: [exc, cache, best]
choose_region_with_lr(duration_s, sla_ms, cache, lr, t, answers) ==
    ChooseWithLRFrom(1, [exc |-> "none", cache |-> cache, best |-> None],
                     duration_s, sla_ms, lr, t, answers)

(* --------------- experiments_large_scale.py: ExperimentRunner ---------- *)

\* get_cached_ci, lines 281-298: get_live_ci returns a number or None, so
\* ci_result[0] raises and every entry of the runner's cache is the default
\* of its region; the lookup it makes is kept for the estimator's cache
CI_DEFAULTS == [Northern |-> 533, Western |-> 677, Southern |-> 547, Eastern |-> 748]

get_cached_ci(region, cache, t, answers) ==
    [ret |-> CI_DEFAULTS[region],
     cache |-> get_live_ci(region, cache, t, answers[region]).cache]

\* lines 417-426: the common fields; carbon_intensity is set by each branch
\* (lines 334, 355, 379, 406).  The fields server_age_years, carbon_debt_ratio,
\* power_w and execution_time are left out: nothing read here depends on them.
Common(task, strategy, result, c) ==
    [exc |-> "none",
     ret |-> Some(result @@ [task_id |-> task.task_id, strategy |-> strategy,
                             workload_type |-> task.workload_type,
                             duration_seconds |-> task.duration_seconds,
                             carbon_intensity |-> c.ret]),
     cache |-> c.cache]

\* lines 319-337: the baseline branch, estimate_co2 having given e
Baseline(task, e, t, answers) ==
    IF e.exc # "none" THEN [exc |-> e.exc, ret |-> None, cache |-> e.cache]
    ELSE Common(task, "baseline",
                [region |-> "Northern", server_age |-> "medium",
                 operational_co2_g |-> e.co2_g[1],
                 embodied_co2_g |-> Round(QInt(0), 6),
                 total_co2_g |-> e.co2_g[1],
                 latency_ms |-> 70, sla_met |-> TRUE],
                get_cached_ci("Northern", e.cache, t, answers))

\* lines 343-357 and 367-381: the record from the region a scheduler chose
FromRegion(task, strategy, best, c) ==
    Common(task, strategy,
           [region |-> best.region, server_age |-> "medium",
            operational_co2_g |-> best.co2_g,
            embodied_co2_g |-> Round(QInt(0), 6),
            total_co2_g |-> best.co2_g,
            latency_ms |-> best.latency_ms,
            sla_met |-> best.latency_ms <= task.sla_latency_ms],
           c)

\* lines 397-409: the record from the result of the embodied-aware scheduler
FromPlacement(task, strategy, lc_result, cache) ==
    Common(task, strategy,
           [region |-> lc_result.region, server_age |-> lc_result.server_age,
            operational_co2_g |-> lc_result.operational_co2_g,
            embodied_co2_g |-> lc_result.embodied_co2_g,
            total_co2_g |-> lc_result.total_co2_g,
            latency_ms |-> lc_result.latency_ms,
            sla_met |-> lc_result.latency_ms <= task.sla_latency_ms],
           [ret |-> lc_result.carbon_intensity, cache |-> cache])

EmbodiedStrategies == {"embodied_prioritized", "balanced", "operational_only"}

\* execute_single_task: [exc, ret, cache].  A scheduler that raises, returns
\* None or returns a dictionary without the keys read sends the task to the
\* next strategy (lines 359-361, 383-385, 410-412).
RECURSIVE execute_single_task(_, _, _, _, _, _, _)

\* lines 339-361: the reactive branch, choose_region having given r
Reactive(task, r, t, answers, fs, lr) ==
    IF r.exc # "none" \/ r.best = None
    THEN execute_single_task(task, "baseline", r.cache, t, answers, fs, lr)
    ELSE FromRegion(task, "reactive", r.best[1],
                    get_cached_ci(r.best[1].region, r.cache, t, answers))

\* lines 363-385: the predictive branch, choose_region_with_lr having given r
Predictive(task, r, t, answers, fs, lr) ==
    IF r.exc # "none" \/ r.best = None
    THEN execute_single_task(task, "reactive", r.cache, t, answers, fs, lr)
    ELSE FromRegion(task, "predictive_lr", r.best[1],
                    get_cached_ci(r.best[1].region, r.cache, t, answers))

\* lines 387-412: the embodied-aware branch, the scheduler having given r;
\* the fallback dictionary has no 'server_age_years' (KeyError at line 400)
EmbodiedAware(task, strategy, r, t, answers, fs, lr) ==
    IF r.exc # "none" \/ r.best = 0
    THEN execute_single_task(task, "baseline", r.cache, t, answers, fs, lr)
    ELSE FromPlacement(task, strategy, r.ret, r.cache)

execute_single_task(task, strategy, cache, t, answers, fs, lr) ==
    IF strategy = "baseline"
    THEN Baseline(task,
                  estimate_co2(task.duration_seconds, "Northern", "hybrid", cache, t,
                               answers, fs),
                  t, answers)
    ELSE IF strategy = "reactive"
    THEN Reactive(task,
                  choose_region(task.duration_seconds, task.sla_latency_ms, cache, t,
                                answers, fs),
                  t, answers, fs, lr)
    ELSE IF strategy = "predictive_lr"
    THEN Predictive(task,
                    choose_region_with_lr(task.duration_seconds, task.sla_latency_ms,
                                          cache, lr, t, answers),
                    t, answers, fs, lr)
    ELSE IF strategy \in EmbodiedStrategies
    THEN EmbodiedAware(task, strategy,
                       choose_region_embodied_aware(
                           task.duration_seconds, task.sla_latency_ms, strategy, FALSE,
                           cache, t, answers, fs),
                       t, answers, fs, lr)
    ELSE [exc |-> "ValueError", ret |-> None, cache |-> cache]

\* The tasks, the strategies asked for and the environment of the runner:
\* every region answers alike and holds the same file.
Tasks ==
    [task_id : {1}, workload_type : {"api_request"},
     duration_seconds : {QDec(1, 4), QInt(15)}, sla_latency_ms : {50, 70, 2000}]
RunnerStrategies ==
    {"baseline", "reactive", "predictive_lr", "carbon_first"} \cup EmbodiedStrategies
LRStates == {NoFeatures, NoModel, Predicts(500)}
RunnerFiles == {NoFile, Unreadable, File(500)}

InitRunner ==
    /\ now = 0
    /\ ci_cache = EmptyCache
    /\ \E a \in LiveAnswers : api = [r \in Regions |-> a]
    /\ \E f \in RunnerFiles : files = [r \in Regions |-> f]
    /\ call = Idle
    /\ tracker = NewTracker

Executing(task, strategy, lr, r) ==
    /\ ci_cache' = r.cache
    /\ call' = [op |-> "execute_single_task", task |-> task, strategy |-> strategy,
                lr |-> lr, exc |-> r.exc, ret |-> r.ret]

Execute(task, strategy, lr) ==
    /\ call = Idle
    /\ Executing(task, strategy, lr,
                 execute_single_task(task, strategy, ci_cache, now, api, files, lr))
    /\ UNCHANGED <<now, api, files, tracker>>

NextRunner ==
    \/ \E task \in Tasks, st \in RunnerStrategies, lr \in LRStates :
          Execute(task, st, lr)
    \/ Return

SpecRunner == InitRunner /\ [][NextRunner]_vars

(* ------------------------------ the claims ----------------------------- *)

Scheduled == call.op = "choose_region_embodied_aware"
Returned == Scheduled /\ call.exc = "none"
Placed == Returned /\ call.best # 0
Latency(region) == REGION_DATACENTERS[region].latency_ms
Top3Of(ret) == ret.top_3_alternatives

\* C1: whenever calculate_amortized_embodied_carbon(total_embodied_kg, age, L,
\* duration_hours) returns, with age >= 0, L > 0 and duration_hours >= 0, its
\* value is (total_embodied_kg * 1000 / (L * 365.25 * 24)) * duration_hours *
\* max(0, (L - age) / L), stated here with the divisions multiplied out; and
\* when age = L or duration_hours = 0 it returns exactly 0.
C1_EmbodiedFormula ==
    call.op = "calculate_amortized_embodied_carbon" =>
        LET kg == call.total_embodied_kg
            age == call.age_years
            L == call.expected_lifetime_years
            dur == call.duration_hours
            lifetime_hours == QMul(QMul(L, QDec(36525, 2)), QInt(24))
            remaining == IF QLt(age, L) THEN QSub(L, age) ELSE QInt(0)
        IN  /\ call.exc = "none" =>
                  QEq(QMul(QMul(call.ret[1], lifetime_hours), L),
                      QMul(QMul(QMul(kg, QInt(1000)), dur), remaining))
            /\ (QEq(age, L) \/ QIsZero(dur)) =>
                  call.exc = "none" /\ QIsZero(call.ret[1])

\* a server half way through its lifetime charged a positive share
C1_Witness ==
    /\ call.op = "calculate_amortized_embodied_carbon"
    /\ call.exc = "none"
    /\ QEq(call.total_embodied_kg, QInt(660))
    /\ QEq(call.age_years, QDec(25, 1))
    /\ QEq(call.expected_lifetime_years, QInt(5))
    /\ QEq(call.duration_hours, QInt(1))
    /\ ~QIsZero(call.ret[1])

\* C2: in every candidate record, in every entry of top_3_alternatives and in
\* the returned placement, total_co2_g equals operational_co2_g plus
\* embodied_co2_g exactly.
C2_TotalIsSum ==
    Returned =>
        LET IsSum(c) == RCmp(c.total_co2_g,
                             RAdd(c.operational_co2_g, c.embodied_co2_g)) = 0
        IN  /\ \A k \in 1..Len(call.candidates) : IsSum(call.candidates[k])
            /\ \A k \in 1..Len(Top3Of(call.ret)) : IsSum(Top3Of(call.ret)[k])
            /\ call.best # 0 => IsSum(call.ret)

\* C3: no (region, server) pair of a region whose latency exceeds sla_ms is
\* among the candidates, the top_3_alternatives or the returned placement,
\* and a region whose latency equals sla_ms is admitted.
C3_SLAFilter ==
    Returned =>
        LET Within(c) == Latency(c.region) <= call.sla_ms /\ c.latency_ms <= call.sla_ms
        IN  /\ \A k \in 1..Len(call.candidates) : Within(call.candidates[k])
            /\ \A k \in 1..Len(Top3Of(call.ret)) : Within(Top3Of(call.ret)[k])
            /\ call.best # 0 => Within(call.ret)
            /\ \A r \in Regions :
                  Latency(r) = call.sla_ms =>
                      \E k \in 1..Len(call.candidates) : call.candidates[k].region = r

\* a bound of 70 ms: Northern, at exactly 70 ms, is placed and the rest are out
C3_Witness ==
    /\ Placed
    /\ call.sla_ms = 70
    /\ call.ret.region = "Northern"
    /\ Len(call.candidates) = 3

\* C4: when no pair survives the SLA and capacity filters, the result carries
\* the explicit no-candidates condition and names no region whose latency
\* exceeds sla_ms.
C4_NoCandidateNamesNoRegion ==
    Returned /\ call.candidates = <<>> =>
        /\ "error" \in DOMAIN call.ret
        /\ "region" \in DOMAIN call.ret => Latency(call.ret.region) <= call.sla_ms

\* C5: a strategy other than the three named ones fails with an
\* invalid-argument error and returns no placement.
C5_UnknownStrategyRejected ==
    Scheduled /\ call.strategy \notin Strategies => call.exc = "ValueError"

\* the score of the three strategies as the claim states it, from the
\* emissions tc and the debt ratio of the server
C6_Formula(strategy, tc, debt, latency, cost) ==
    CASE strategy = "operational_only" ->
             QAdd(QAdd(QMul(QDec(7, 1), tc.operational_co2_g),
                       QDiv(QInt(2 * latency), QInt(10000))),
                  QDiv(cost, QInt(10)))
      [] strategy = "balanced" ->
             QAdd(QAdd(QAdd(QMul(QDec(35, 2), tc.operational_co2_g),
                            QMul(QDec(35, 2), tc.embodied_co2_g)),
                       QDiv(QInt(2 * latency), QInt(10000))),
                  QDiv(cost, QInt(10)))
      [] strategy = "embodied_prioritized" ->
             QAdd(QAdd(QAdd(QMul(QDec(4, 1), tc.total_co2_g), QMul(QInt(300), debt)),
                       QDiv(QInt(2 * latency), QInt(10000))),
                  QDiv(cost, QInt(10)))

C6_Score(strategy, region, server_age, ci, duration_s) ==
    C6_Formula(strategy, calculate_total_carbon(server_age, duration_s, ci),
               calculate_carbon_debt_ratio(SERVER_SPECS[server_age].age_years,
                                           SERVER_SPECS[server_age].expected_lifetime_years),
               Latency(region), REGION_DATACENTERS[region].cost_factor)

C6_ScoreTable ==
    [strategy \in Strategies, region \in Regions, server_age \in DOMAIN SERVER_SPECS,
     ci \in HybridCIs, duration_s \in Durations |->
        C6_Score(strategy, region, server_age, ci, duration_s)]

\* C6: under each of the three strategies the returned (region, server) is a
\* surviving candidate, and no surviving candidate has a lower score under
\* that strategy's formula.
C6_MinimumScore ==
    Placed /\ call.strategy \in Strategies =>
        LET S(r, a) == C6_ScoreTable[call.strategy, r, a,
                                     HybridCI(call.live[r].value, call.hist[r].value),
                                     call.duration_s]
            Surviving == {p \in Regions \X DOMAIN SERVER_SPECS :
                             /\ Latency(p[1]) <= call.sla_ms
                             /\ REGION_DATACENTERS[p[1]].servers[p[2]] > 0}
        IN  /\ <<call.ret.region, call.ret.server_age>> \in Surviving
            /\ \A p \in Surviving :
                  QLe(S(call.ret.region, call.ret.server_age), S(p[1], p[2]))

\* all twelve pairs survive and the best one is not the first one scored
C6_Witness ==
    /\ Placed
    /\ call.strategy = "balanced"
    /\ Len(call.candidates) = 12
    /\ call.best > 1

\* what the same call returns under operational_only: the answers of the
\* remote and the files are those of the call, so the readings are the same
UnderOperationalOnly ==
    choose_region_embodied_aware(call.duration_s, call.sla_ms, "operational_only",
                                 FALSE, ci_cache, now, api, files)

C8_ReadingsUsedAsRead ==
    Returned =>
        \A k \in 1..Len(call.candidates) :
            LET c == call.candidates[k]
                l == call.live[c.region].value
                h == call.hist[c.region].value
                live == IF l = None THEN 700 ELSE l[1]
                hist == IF h = None THEN live ELSE h[1]
                blend == QAdd(QMul(QDec(7, 1), QInt(live)), QMul(QDec(3, 1), QInt(hist)))
            IN  RCmp(c.carbon_intensity, Round(blend, 2)) = 0

\* C9: no failure of a carbon-intensity lookup, live or historical, makes
\* choose_region_embodied_aware fail: the call returns a result.
C9_LookupFailureTolerated ==
    Scheduled => call.exc # "PandasError"

\* the live reading of a region was not available to the call
LiveUnavailable(region) ==
    /\ call.live[region].read
    /\ api[region].status # "200" \/ api[region].carbonIntensity = None

\* what the same call returns when every region without a live reading
\* answers a measured 700 instead
WithMeasuredDefault ==
    choose_region_embodied_aware(
        call.duration_s, call.sla_ms, call.strategy, call.verbose,
        [r \in Regions |-> None], now,
        [r \in Regions |-> IF LiveUnavailable(r) THEN Response(Some(DEFAULT_CI))
                           ELSE api[r]],
        files)

\* C10: a placement computed with the default 700 in place of an unavailable
\* live reading is told apart, by the returned record, from the placement
\* computed from a measured reading of 700.
C10_DefaultTagged ==
    Placed /\ LiveUnavailable(call.ret.region) =>
        call.ret # WithMeasuredDefault.ret

CalledDebtRatio == call.op = "calculate_carbon_debt_ratio"
CalledPower == call.op = "calculate_power_consumption"
CalledEmbodied == call.op = "calculate_amortized_embodied_carbon"
CalledTotal == call.op = "calculate_total_carbon"
Negative(x) == QLt(x, QInt(0))

\* C11: for age_years >= 0 and expected_lifetime_years > 0,
\* calculate_carbon_debt_ratio returns a value in [0, 1] that no greater age
\* makes larger, that is (lifetime - age) / lifetime while age < lifetime, and
\* that is exactly 0 once age >= lifetime.
C11_DebtRatio ==
    (CalledDebtRatio /\ ~Negative(call.age_years)
                     /\ QLt(QInt(0), call.expected_lifetime_years)) =>
        LET age == call.age_years
            L == call.expected_lifetime_years
        IN  /\ call.exc = "none"
            /\ QLe(QInt(0), call.ret[1]) /\ QLe(call.ret[1], QInt(1))
            /\ QLt(age, L) => QEq(QMul(call.ret[1], L), QSub(L, age))
            /\ QLe(L, age) => QIsZero(call.ret[1])
            /\ \A older \in AgeYears :
                  QLe(age, older) =>
                      QLe(calculate_carbon_debt_ratio(older, L), call.ret[1])

\* a server of 2.5 years with a lifetime of 5 owes half, and one beyond its
\* lifetime is also among the ages compared
C11_Witness ==
    /\ CalledDebtRatio
    /\ QEq(call.age_years, QDec(25, 1))
    /\ QEq(call.expected_lifetime_years, QInt(5))
    /\ call.exc = "none"
    /\ QEq(call.ret[1], QDec(5, 1))
    /\ \E older \in AgeYears : QLt(call.expected_lifetime_years, older)

\* C12: for base_power_w >= 0, age_years >= 0 and a degradation rate >= 0,
\* calculate_power_consumption returns (its assertion does not fail) a power
\* between base_power_w and 1.60 * base_power_w that no greater age makes
\* smaller.
C12_PowerSaturates ==
    (CalledPower /\ ~Negative(call.base_power_w) /\ ~Negative(call.age_years)
                 /\ ~Negative(call.alpha)) =>
        /\ call.exc = "none"
        /\ QLe(call.base_power_w, call.ret[1])
        /\ QLe(call.ret[1], QMul(call.base_power_w, QDec(160, 2)))
        /\ \A older \in AgeYears :
              QLe(call.age_years, older) =>
                  QLe(call.ret[1],
                      calculate_power_consumption(call.base_power_w, older, call.alpha))

\* a 65 W server of six years at 12% a year: 72% degradation held at 60%
C12_Witness ==
    /\ CalledPower
    /\ QEq(call.base_power_w, QInt(BASE_POWER_W))
    /\ QEq(call.age_years, QInt(6))
    /\ QEq(call.alpha, EFFICIENCY_DEGRADATION_RATE)
    /\ call.exc = "none"
    /\ QEq(call.ret[1], QInt(104))

\* C13: calculate_power_consumption called with a negative age_years or a
\* negative degradation rate raises; it returns no power.
C13_NegativeRejected ==
    (CalledPower /\ (Negative(call.age_years) \/ Negative(call.alpha))) =>
        call.exc # "none"

\* C14: a negative duration, a negative age or a lifetime of zero or below
\* passed to calculate_carbon_debt_ratio, calculate_amortized_embodied_carbon
\* or calculate_total_carbon raises; no value is returned for such arguments.
C14_InvalidSurfaced ==
    /\ (CalledDebtRatio \/ CalledEmbodied) =>
          ((Negative(call.age_years) \/ QLe(call.expected_lifetime_years, QInt(0)))
               => call.exc # "none")
    /\ CalledEmbodied => (Negative(call.duration_hours) => call.exc # "none")
    /\ CalledTotal => (Negative(call.duration_seconds) => call.exc # "none")

CalledBreakEven == call.op = "calculate_break_even_time"
Analyzed == call.op = "analyze_hardware_replacement"
ClassPower(server_age) == calculate_power_consumption(QInt(BASE_POWER_W), SERVER_SPECS[server_age].age_years, EFFICIENCY_DEGRADATION_RATE)

\* grams of CO2 an hour the new class saves over the old one at an intensity
ClassSavings(old_class, new_class, carbon_intensity) ==
    QMul(QMul(QDiv(QSub(ClassPower(old_class), ClassPower(new_class)), QInt(1000)),
              carbon_intensity),
         PUE_DEFAULT)

\* C15: calculate_break_even_time returns +infinity exactly when the hourly
\* operational savings of the new class over the old class are <= 0, and a
\* finite number of hours otherwise.
C15_InfiniteIffNoSavings ==
    CalledBreakEven =>
        (call.ret[1] = Infinity <=>
            QLe(ClassSavings(call.old_server_age, call.new_server_age,
                             call.carbon_intensity), QInt(0)))

\* C16: with positive savings, calculate_break_even_time is the new class's
\* embodied carbon times the new-hardware multiplier, less the old class's
\* remaining embodied debt, divided by the hourly savings of the new class's
\* own power draw (stated with the division multiplied out).
C16_BreakEvenFormula ==
    (CalledBreakEven /\ QLt(QInt(0), ClassSavings(call.old_server_age, call.new_server_age, call.carbon_intensity))) =>
        LET old_specs == SERVER_SPECS[call.old_server_age]
            new_specs == SERVER_SPECS[call.new_server_age]
            debt == QMul(QMul(old_specs.total_embodied_kg, QInt(1000)),
                         calculate_carbon_debt_ratio(old_specs.age_years,
                                                     old_specs.expected_lifetime_years))
            cost == QMul(QMul(new_specs.total_embodied_kg, QInt(1000)),
                         NEW_HARDWARE_CARBON_MULTIPLIER)
        IN  /\ call.ret[1] # Infinity
            /\ QEq(QMul(call.ret[1],
                        ClassSavings(call.old_server_age, call.new_server_age,
                                     call.carbon_intensity)),
                   QSub(cost, debt))

\* C17: analyze_hardware_replacement returns, for every region and every pair
\* of age classes, a record with the break-even hours, should_replace, the
\* lifetime carbon difference and a reason; it does not raise.
C17_AnalysisReturns ==
    Analyzed =>
        /\ call.exc = "none"
        /\ {"break_even", "recommendation", "lifetime_analysis"} \subseteq DOMAIN call.ret

\* C18: in analyze_hardware_replacement should_replace is true exactly when
\* the break-even hours are below the old server's remaining life,
\* (expected_lifetime_years - age_years) * 365.25 * 24 hours; an infinite
\* break-even gives false.
C18_ReplaceIffBreakEvenInTime ==
    (Analyzed /\ call.should_replace # None) =>
        LET old_specs == SERVER_SPECS[call.old_age]
            remaining == QMul(QSub(old_specs.expected_lifetime_years,
                                   old_specs.age_years), HOURS_PER_YEAR)
            hours == call.break_even_hours[1]
        IN  /\ hours = Infinity => call.should_replace[1] = FALSE
            /\ hours # Infinity => (call.should_replace[1] <=> QLt(hours, remaining))

\* an old server at 5000 gCO2/kWh: break-even after 7252.7 hours, inside the
\* 8766 hours it has left
C18_Witness ==
    /\ Analyzed
    /\ call.old_age = "old" /\ call.new_age = "new"
    /\ call.ci = Some(QInt(5000))
    /\ call.should_replace = Some(TRUE)
    /\ Round(call.break_even_hours[1], 1) = Round(QDec(72527, 1), 1)

\* what the call in progress returns when it runs alone: on a cache no other
\* invocation has written, with the same answers of the remote
Alone(c) ==
    choose_region_embodied_aware(c.duration_s, c.sla_ms, c.strategy, c.verbose,
                                 EmptyCache, now, api, files)

\* C19: choose_region_embodied_aware writes no shared state, and an
\* invocation that overlaps others returns what it returns when run alone:
\* every step that is an invocation leaves the module-level cache of the
\* carbon-intensity lookups as it was and gives the result of the same call
\* on an untouched cache.
C19_NoSharedState ==
    [][(call' # call /\ call'.op = "choose_region_embodied_aware") =>
           /\ ci_cache' = ci_cache
           /\ call'.exc = Alone(call').exc
           /\ call'.ret = Alone(call').ret]_vars

\* C20: when no region meets the SLA bound, so that no candidate survives,
\* choose_region_embodied_aware returns a result and raises nothing, for
\* every strategy and for verbose false and true.
C20_NoPlacementReturned ==
    (Scheduled /\ \A r \in Regions : Latency(r) > call.sla_ms) =>
        call.exc = "none"

\* the capacity the call found for the (region, class) pair of a record
FoundAvailable(c) == call.tables.available[c.region][c.server_age]

\* the zero-capacity classes are skipped: no candidate and no entry of
\* top_3_alternatives is a pair without capacity
ZeroCapacitySkipped ==
    /\ \A k \in 1..Len(call.candidates) : FoundAvailable(call.candidates[k]) > 0
    /\ \A k \in 1..Len(Top3Of(call.ret)) : FoundAvailable(Top3Of(call.ret)[k]) > 0

\* C21: an age class whose available capacity at a region is zero or less is
\* never scored for that region: it is not among the candidates, it is not
\* in top_3_alternatives, and the (region, server_age) the call returns is
\* never such a pair.
C21_ZeroCapacityNeverUsed ==
    (Returned /\ "tables" \in DOMAIN call) =>
        /\ ZeroCapacitySkipped
        /\ FoundAvailable(call.ret) > 0

\* the scored part alone: skipped classes are neither candidates nor best
C21_ZeroCapacityNeverScored ==
    (Returned /\ "tables" \in DOMAIN call) =>
        /\ ZeroCapacitySkipped
        /\ call.best # 0 => FoundAvailable(call.ret) > 0

CalledLive == call.op = "get_live_ci"

\* C22: get_live_ci returns a number for every region and every outcome of
\* the remote lookup, 700 when the lookup fails; it never returns None.
C22_LiveAlwaysNumeric ==
    CalledLive => call.ret # None

\* the entry of a region is served: it exists and is younger than CACHE_TTL
Fresh(cache, region, t) ==
    cache[region] # None /\ t - cache[region][1].ts < CACHE_TTL

\* a step that is a call of get_live_ci for a region of ZONE_MAP
LiveStep(region) ==
    /\ call = Idle
    /\ call'.op = "get_live_ci"
    /\ call'.region = region

\* C27: get_live_ci serves a cached value only while the entry is younger than
\* CACHE_TTL, and an entry is only ever written by a call whose fetch was
\* answered with status 200, as the value and the time of that fetch.  A call
\* on a missing or expired entry returns what the fetch gives: the answer of
\* the remote, or 700 when the fetch fails, and a failed fetch leaves the
\* cache as it was.
C27_CacheServedWhileFresh ==
    [][/\ ci_cache' # ci_cache =>
             \E r \in Regions :
                /\ LiveStep(r)
                /\ ~Fresh(ci_cache, r, now)
                /\ api[r].status = "200"
                /\ ci_cache' = [ci_cache EXCEPT
                                    ![r] = Some([ci |-> api[r].carbonIntensity,
                                                 ts |-> now])]
       /\ \A r \in Regions :
             LiveStep(r) =>
                /\ Fresh(ci_cache, r, now) =>
                      call'.ret = ci_cache[r][1].ci /\ ci_cache' = ci_cache
                /\ (~Fresh(ci_cache, r, now) /\ api[r].status = "200") =>
                      call'.ret = api[r].carbonIntensity
                /\ (~Fresh(ci_cache, r, now) /\ api[r].status # "200") =>
                      call'.ret = Some(DEFAULT_CI) /\ ci_cache' = ci_cache]_vars

\* the entry stored at time 0 has expired while the remote fails: the call
\* returns 700 and the entry stays as it was
C27_Witness ==
    /\ CalledLive
    /\ call.region = "Northern"
    /\ api["Northern"] = RequestError
    /\ ci_cache["Northern"] = Some([ci |-> Some(400), ts |-> 0])
    /\ now >= CACHE_TTL
    /\ call.ret = Some(DEFAULT_CI)

\* the (region, server_age) pair a record names
Pair(c) == <<c.region, c.server_age>>

\* C23: top_3_alternatives holds min(3, n) of the n candidates, in ascending
\* order of score, and no candidate left out of it has a lower score than
\* one of its entries.
C23_Top3Lowest ==
    Returned =>
        LET top == Top3Of(call.ret)
            n == Len(call.candidates)
        IN  /\ Len(top) = IF n < 3 THEN n ELSE 3
            /\ \A i \in 1..Len(top) : \E k \in 1..n : call.candidates[k] = top[i]
            /\ \A i, j \in 1..Len(top) : i # j => Pair(top[i]) # Pair(top[j])
            /\ \A i, j \in 1..Len(top) : i < j => RCmp(top[i].score, top[j].score) <= 0
            /\ \A k \in 1..n :
                  (\A i \in 1..Len(top) : call.candidates[k] # top[i]) =>
                      \A i \in 1..Len(top) :
                          RCmp(top[i].score, call.candidates[k].score) <= 0

\* more than three candidates, the three lowest of which are not the first
\* three of the loop
C23_Witness ==
    /\ Placed
    /\ Len(call.candidates) > 3
    /\ Top3Of(call.ret) # SubSeq(call.candidates, 1, 3)
    /\ RCmp(Top3Of(call.ret)[1].score, Top3Of(call.ret)[3].score) < 0

\* C26: whenever a candidate survives, the record returned as best is the
\* first entry of its top_3_alternatives.
C26_BestIsFirstAlternative ==
    Placed => Pair(call.ret) = Pair(Top3Of(call.ret)[1])

\* the same call, at the same time and on the same readings, had the classes
\* the embodied carbon kg
WithEmbodied(kg) ==
    ChooseOn([call.tables EXCEPT !.embodied_kg = kg], call.duration_s, call.sla_ms,
             call.strategy, call.verbose, ci_cache, now, api, files)

\* the two runs select alike: both raise, or both return the same (region,
\* server_age) with the same score, the embodied carbon reported
SameSelection(other) ==
    /\ other.exc = "none" <=> call.exc = "none"
    /\ other.best = 0 <=> call.best = 0
    /\ Placed =>
          /\ Pair(other.ret) = Pair(call.ret)
          /\ other.ret.score = call.ret.score
          /\ "embodied_co2_g" \in DOMAIN call.ret

\* C24: under operational_only the selection does not depend on embodied
\* carbon: a run that differs only in the classes' total_embodied_kg selects
\* the same (region, age class) with the same score, and the returned record
\* reports embodied_co2_g.
C24_OperationalOnlyIgnoresEmbodied ==
    (Scheduled /\ "tables" \in DOMAIN call /\ call.strategy = "operational_only") =>
        \A kg \in KgChoices : SameSelection(WithEmbodied(kg))

\* C25: for total_embodied_kg >= 0, age_years >= 0, expected_lifetime_years > 0
\* and duration_hours >= 0, calculate_amortized_embodied_carbon returns a value
\* >= 0: its assertion does not fail.
C25_EmbodiedReturnsOnValidInputs ==
    (/\ CalledEmbodied
     /\ ~Negative(call.total_embodied_kg)
     /\ ~Negative(call.age_years)
     /\ QLt(QInt(0), call.expected_lifetime_years)
     /\ ~Negative(call.duration_hours)) =>
        call.exc = "none" /\ ~Negative(call.ret[1])

\* a step that is a call of sample_telemetry or of stop_tracking
TrackerStep ==
    call = Idle /\ call'.op \in {"sample_telemetry", "stop_tracking"}

\* C28: on a tracker on which start_tracking has never been called,
\* sample_telemetry and stop_tracking raise RuntimeError and leave start_time
\* and telemetry_data as they were.
C28_NotStartedRaises ==
    [][(TrackerStep /\ ~tracker.started) =>
           /\ call'.exc = "RuntimeError"
           /\ tracker'.start_time = tracker.start_time
           /\ tracker'.telemetry_data = tracker.telemetry_data]_vars

\* stop_tracking raised on a tracker that was never started
C28_Witness ==
    /\ call.op = "stop_tracking"
    /\ call.exc = "RuntimeError"
    /\ ~tracker.started
    /\ tracker.start_time = None
    /\ tracker.telemetry_data = <<>>

\* C29: every stop_tracking result reports telemetry_samples equal to 2, the
\* initial and the final sample, plus the number of sample_telemetry calls
\* since the most recent start_tracking.
C29_SamplesCounted ==
    (call.op = "stop_tracking" /\ call.exc = "none") =>
        call.ret[1].telemetry_samples = 2 + tracker.sampled

Executed == call.op = "execute_single_task"

\* C30: every record execute_single_task returns carries a strategy field
\* equal to the strategy asked for, also when the strategy's scheduler fails
\* and a fallback produces the record.
C30_RecordCarriesRequestedStrategy ==
    (Executed /\ call.exc = "none") => call.ret[1].strategy = call.strategy

====
